---- MODULE Spec2Model ----
(***************************************************************************)
(* Model of the justocr benchmark orchestration: the outcome library of    *)
(* lib/ocr/benchmark.ts and the benchmark run of app/page.tsx (Home).      *)
(*                                                                         *)
(* The OCR engines, the /api/ocr server and the transport are the          *)
(* environment.  A Local/Direct operation settles once, with a result or   *)
(* with a failure.  The Mediated stream carries at most one outcome event  *)
(* per mediated provider, ends only after it has sent one for each of      *)
(* them, and may fail at any point.  At most MaxRuns runs have operations  *)
(* in flight at the same time, over selections of at most MaxSelected      *)
(* providers.                                                              *)
(***************************************************************************)
EXTENDS Integers, Sequences, FiniteSets, TLC

(* ---------------------------------------------------------------- bounds *)
MaxRuns == 2

MaxSelected == 2

MaxTime == 2

MaxLibLen == 2

MaxTextLen == 2

MaxPages == 2

MaxOutcomes == 3
\* calls of storeApiKey and removeApiKey in a row
MaxKeyCalls == 3
\* lines the server sends on one stream
MaxLines == 3

(* ------------------------------------------------------------- constants *)
MAX_BENCHMARK_PROVIDERS == 4

NULL == [null |-> TRUE]

PROVIDERS ==
  << [id |-> "tesseract-local", name |-> "Tesseract",
      isClientSide |-> TRUE, supportsBYOK |-> FALSE],
     [id |-> "mistral", name |-> "Mistral OCR",
      isClientSide |-> FALSE, supportsBYOK |-> TRUE],
     [id |-> "google", name |-> "Google Cloud Vision",
      isClientSide |-> FALSE, supportsBYOK |-> TRUE] >>

ProviderIds == {PROVIDERS[i].id : i \in DOMAIN PROVIDERS}

BYOKIds == {PROVIDERS[i].id : i \in {j \in DOMAIN PROVIDERS : PROVIDERS[j].supportsBYOK}}

\* PROVIDERS.find((p) => p.id === id); NULL stands for undefined
find(id) ==
  IF \E i \in DOMAIN PROVIDERS : PROVIDERS[i].id = id
  THEN PROVIDERS[CHOOSE i \in DOMAIN PROVIDERS : PROVIDERS[i].id = id]
  ELSE NULL

\* config?.isClientSide, config?.supportsBYOK, config?.name || id
isClientSide(id) == IF find(id) = NULL THEN FALSE ELSE find(id).isClientSide

supportsBYOK(id) == IF find(id) = NULL THEN FALSE ELSE find(id).supportsBYOK

providerName(id) == IF find(id) = NULL THEN id ELSE find(id).name

\* values an engine can return, and messages a failure can carry
OCRResults ==
  { [text |-> <<"a">>,
     pages |-> << [pageNumber |-> 1, text |-> <<"a">>] >>,
     processingTimeMs |-> 1] }

ErrorMessages == { [message |-> "Processing failed"] }

Times == 1..MaxTime

Includes(s, x) == \E i \in DOMAIN s : s[i] = x

Range(s) == {s[i] : i \in DOMAIN s}

(* --------------------------------------------------------------- strings *)
\* a string is the sequence of its characters; " " stands for any white space
Chars == {"a", " "}

Strings == UNION {[1..n -> Chars] : n \in 0..MaxTextLen}

\* Array.prototype.join
RECURSIVE join(_, _)
join(texts, sep) ==
  IF texts = << >> THEN << >>
  ELSE IF Len(texts) = 1 THEN texts[1]
  ELSE texts[1] \o sep \o join(Tail(texts), sep)

IsSpace(c) == c \in {" ", "\n"}

\* String.prototype.trim
RECURSIVE trim(_)
trim(str) ==
  IF str = << >> THEN str
  ELSE IF IsSpace(Head(str)) THEN trim(Tail(str))
  ELSE IF IsSpace(str[Len(str)]) THEN trim(SubSeq(str, 1, Len(str) - 1))
  ELSE str

\* String.prototype.split on a one-character separator
RECURSIVE splitFrom(_, _, _)
splitFrom(text, sep, piece) ==
  IF text = << >> THEN << piece >>
  ELSE IF Head(text) = sep
       THEN << piece >> \o splitFrom(Tail(text), sep, << >>)
       ELSE splitFrom(Tail(text), sep, Append(piece, Head(text)))

split(text, sep) == splitFrom(text, sep, << >>)

(* ------------------------------------------------ lib/ocr/benchmark.ts *)
createInitialBenchmarkResults(providers) ==
  [results |-> [i \in DOMAIN providers |->
                  [providerId |-> providers[i].id,
                   providerName |-> providers[i].name,
                   result |-> NULL,
                   error |-> NULL,
                   status |-> "pending"]],
   completedAt |-> 0]

\* { ...r, ...update }
Spread(r, update) ==
  [k \in (DOMAIN r) \cup (DOMAIN update) |->
     IF k \in DOMAIN update THEN update[k] ELSE r[k]]

updateBenchmarkResult_all(benchmarkResults, providerId, update) ==
  [benchmarkResults EXCEPT
     !.results = [i \in DOMAIN benchmarkResults.results |->
                    Spread(benchmarkResults.results[i], update)]]

updateBenchmarkResult_reorder(benchmarkResults, providerId, update) ==
  [benchmarkResults EXCEPT
     !.results =
        SelectSeq(benchmarkResults.results,
                  LAMBDA r : r.providerId # providerId)
        \o [i \in DOMAIN SelectSeq(benchmarkResults.results,
                                   LAMBDA r : r.providerId = providerId) |->
              Spread(SelectSeq(benchmarkResults.results,
                               LAMBDA r : r.providerId = providerId)[i],
                     update)]]

updateBenchmarkResult(benchmarkResults, providerId, update) ==
  [benchmarkResults EXCEPT
     !.results = [i \in DOMAIN benchmarkResults.results |->
                    IF benchmarkResults.results[i].providerId = providerId
                    THEN Spread(benchmarkResults.results[i], update)
                    ELSE benchmarkResults.results[i]]]

sortByKey_unsorted(items, keys) == items

\* Array.prototype.sort with a comparator that compares keys[i]: the sort is
\* stable, so items go by key and, among equal keys, by position
sortByKey(items, keys) ==
  LET rank(i) ==
        Cardinality({j \in DOMAIN items :
                       \/ keys[j] < keys[i]
                       \/ keys[j] = keys[i] /\ j < i}) + 1
  IN [k \in DOMAIN items |->
        items[CHOOSE i \in DOMAIN items : rank(i) = k]]

RECURSIVE sum(_)
sum(numbers) ==
  IF numbers = << >> THEN 0 ELSE Head(numbers) + sum(Tail(numbers))

round_floor(total, count) == total \div count

\* Math.round(total / count) for total >= 0 and count > 0
round(total, count) == (2 * total + count) \div (2 * count)

compareBenchmarks_countAll(results) ==
  [fastest |-> NULL, slowest |-> NULL,
   mostCharacters |-> NULL, leastCharacters |-> NULL,
   averageTimeMs |-> 0, averageCharCount |-> 0,
   successCount |-> 0, errorCount |-> Len(results.results)]

compareBenchmarks(results) ==
  LET successfulResults ==
        SelectSeq(results.results,
                  LAMBDA r : r.status = "completed" /\ r.result # NULL)
      errorResults ==
        SelectSeq(results.results, LAMBDA r : r.status = "error")
      sortedByTime ==
        sortByKey(successfulResults,
                  [i \in DOMAIN successfulResults |->
                     successfulResults[i].result.processingTimeMs])
      sortedByChars ==
        sortByKey(successfulResults,
                  [i \in DOMAIN successfulResults |->
                     0 - Len(successfulResults[i].result.text)])
      totalTime ==
        sum([i \in DOMAIN successfulResults |->
               successfulResults[i].result.processingTimeMs])
      totalChars ==
        sum([i \in DOMAIN successfulResults |->
               Len(successfulResults[i].result.text)])
      timed(r) == [providerId |-> r.providerId,
                   providerName |-> r.providerName,
                   timeMs |-> r.result.processingTimeMs]
      counted(r) == [providerId |-> r.providerId,
                     providerName |-> r.providerName,
                     charCount |-> Len(r.result.text)]
  IN IF Len(successfulResults) = 0
     THEN [fastest |-> NULL, slowest |-> NULL,
           mostCharacters |-> NULL, leastCharacters |-> NULL,
           averageTimeMs |-> 0, averageCharCount |-> 0,
           successCount |-> 0, errorCount |-> Len(errorResults)]
     ELSE [fastest |-> timed(sortedByTime[1]),
           slowest |-> timed(sortedByTime[Len(sortedByTime)]),
           mostCharacters |-> counted(sortedByChars[1]),
           leastCharacters |-> counted(sortedByChars[Len(sortedByChars)]),
           averageTimeMs |-> round(totalTime, Len(successfulResults)),
           averageCharCount |-> round(totalChars, Len(successfulResults)),
           successCount |-> Len(successfulResults),
           errorCount |-> Len(errorResults)]

\* JSON.stringify of null
JSONNull == [json |-> "null"]

\* exportAsJSON: the exportData object, each value as JSON.stringify renders
\* it (null for null, the value itself for strings, numbers and objects)
exportAsJSON(results) ==
  [timestamp |-> [toISOString |-> results.completedAt],
   statistics |-> compareBenchmarks(results),
   providers |->
     [i \in DOMAIN results.results |->
        LET r == results.results[i]
        IN [providerId |-> r.providerId,
            providerName |-> r.providerName,
            status |-> r.status,
            error |-> IF r.error = NULL THEN JSONNull ELSE r.error,
            result |->
              IF r.result # NULL
              THEN [text |-> r.result.text,
                    processingTimeMs |-> r.result.processingTimeMs,
                    characterCount |-> Len(r.result.text),
                    pageCount |-> Len(r.result.pages)]
              ELSE JSONNull]]]

\* r.error.replace(/"/g, '""'), on the characters of the message
RECURSIVE doubleQuotes(_)
doubleQuotes(str) ==
  IF str = << >> THEN << >>
  ELSE (IF Head(str) = "\"" THEN <<"\"", "\"">> ELSE << Head(str) >>)
       \o doubleQuotes(Tail(str))

\* r.result?.field ?? "": the number as text, or the empty string
numberOrEmpty_zero(result, number) ==
  IF result # NULL THEN << ToString(number) >> ELSE << "0" >>

numberOrEmpty(result, number) ==
  IF result # NULL THEN << ToString(number) >> ELSE << >>

csvError_noQuotes(error) ==
  IF error # NULL /\ error.message # << >> THEN error.message ELSE << >>

csvError_noEscape(error) ==
  IF error # NULL /\ error.message # << >>
  THEN <<"\"">> \o error.message \o <<"\"">>
  ELSE << >>

\* r.error ? `"${r.error.replace(/"/g, '""')}"` : ""
csvError(error) ==
  IF error # NULL /\ error.message # << >>
  THEN <<"\"">> \o doubleQuotes(error.message) \o <<"\"">>
  ELSE << >>

csvHeaders ==
  << <<"Provider ID">>, <<"Provider Name">>, <<"Status">>,
     <<"Processing Time (ms)">>, <<"Character Count">>, <<"Page Count">>,
     <<"Error">> >>

\* exportAsCSV: the text, as the sequence of its pieces; the separators
\* and the characters of error messages are pieces of their own
exportAsCSV(results) ==
  LET rows ==
        [i \in DOMAIN results.results |->
           LET r == results.results[i]
           IN join(<< << r.providerId >>,
                      <<"\"", r.providerName, "\"">>,
                      << r.status >>,
                      numberOrEmpty(r.result,
                        IF r.result # NULL THEN r.result.processingTimeMs
                        ELSE 0),
                      numberOrEmpty(r.result,
                        IF r.result # NULL THEN Len(r.result.text) ELSE 0),
                      numberOrEmpty(r.result,
                        IF r.result # NULL THEN Len(r.result.pages) ELSE 0),
                      csvError(r.error) >>, <<",">>)]
  IN join(<< join(csvHeaders, <<",">>) >> \o rows, <<"\n">>)

isBenchmarkComplete_some(results) ==
  \E i \in DOMAIN results.results :
     results.results[i].status \in {"completed", "error"}

isBenchmarkComplete(results) ==
  \A i \in DOMAIN results.results :
     \/ results.results[i].status = "completed"
     \/ results.results[i].status = "error"

(* ------------------------------------------- lib/ocr: provider runs *)
\* the registry, and what a property read on the object literal finds when
\* the key is not its own: members of Object.prototype, none of which has a
\* process method
providers ==
  [tesseract |-> [name |-> "Tesseract", process |-> TRUE]]

ObjectPrototype ==
  [constructor |-> [name |-> "Object", process |-> FALSE],
   toString |-> [name |-> "toString", process |-> FALSE]]

getProvider(id) ==
  IF id \in DOMAIN providers THEN providers[id]
  ELSE IF id \in DOMAIN ObjectPrototype THEN ObjectPrototype[id]
  ELSE NULL

getAvailableProviders == DOMAIN providers

\* no provider run has been started
NoCall ==
  [fn |-> "none", status |-> "idle", providerId |-> "", imageBuffers |-> << >>,
   pages |-> << >>, invoked |-> << >>, result |-> NULL, error |-> NULL]

\* processMistralOCR from the parsed response on; "" is the falsy markdown
processMistralOCR(data, elapsed) ==
  IF Len(data.pages) = 0
  THEN [text |-> << >>, pages |-> << >>, processingTimeMs |-> elapsed,
        provider |-> "mistral"]
  ELSE [text |-> trim(join(SelectSeq(
                   [i \in DOMAIN data.pages |-> data.pages[i].markdown],
                   LAMBDA m : m # << >>), <<"\n", "\n">>)),
        pages |-> [i \in DOMAIN data.pages |->
                     [pageNumber |-> i, text |-> data.pages[i].markdown]],
        processingTimeMs |-> elapsed,
        provider |-> "mistral"]

\* processGoogleVisionOCR from fullTextAnnotation?.text || "" on
processGoogleVisionOCR(extractedText, elapsed) ==
  IF extractedText = << >>
  THEN [text |-> << >>, pages |-> << >>, processingTimeMs |-> elapsed,
        provider |-> "google"]
  ELSE [text |-> trim(extractedText),
        pages |-> << [pageNumber |-> 1, text |-> extractedText] >>,
        processingTimeMs |-> elapsed,
        provider |-> "google"]

(* ------------------------------------------------------- app/page.tsx *)
VARIABLES
  selectedFile,          \* TRUE when a File is selected, FALSE for null
  selectedProviders,     \* provider ids in selection order
  credentialModes,       \* per BYOK provider: "server" or "byok"
  storedKeys,            \* providers with an API key in localStorage
  providersMissingKeys,  \* the memoised list the button is disabled by
  isLoading,
  benchmarkResults,      \* NULL or the session
  abortControllerRef,    \* 0 for null, else the run whose controller it holds
  runs,                  \* per run with operations in flight: what its
                         \* closures captured and where its operations stand
  libSession,            \* benchmark.ts called directly: the session,
  libPrev,               \* the session before the last call,
  libOp,                 \* and the last call
  libOut,                \* what compareBenchmarks or an export returned
  ocr,                   \* a provider run: processOCR on the server, or one
                         \* of the browser clients
  post,                  \* a request to /api/ocr and where POST stands
  pdf,                   \* a call of pdfToImages and its temp directory
  tess,                  \* a call of tesseractProvider.process and its worker
  client,                \* a call of processImageClientSide and its worker
  window,                \* TRUE in a browser, FALSE where window is undefined
  localStorage,          \* the items of window.localStorage, by their key
  keyLog,                \* the calls of storeApiKey and removeApiKey so far
  reader                 \* the read loop of the Mediated stream: what the
                         \* server sends, how far it was read, the buffer,
                         \* and the events handed to updateSingleResult

vars == << selectedFile, selectedProviders, credentialModes, storedKeys,
           providersMissingKeys, isLoading, benchmarkResults,
           abortControllerRef, runs, libSession, libPrev, libOp, libOut,
           ocr, post, pdf, tess, client, window, localStorage, keyLog,
           reader >>

docVars == << post, pdf, tess, client >>

keyVars == << window, localStorage, keyLog >>

\* no request has been received and no document is being processed
NoPost ==
  [pc |-> "idle", request |-> NULL, imageBuffers |-> << >>, response |-> NULL]

NoPdf == [pc |-> "idle", tempDir |-> "none", pending |-> NULL, settled |-> NULL]

NoTess == [pc |-> "idle", worker |-> "none", pending |-> NULL, settled |-> NULL]

NoClient ==
  [pc |-> "idle", file |-> NULL, worker |-> "none", pages |-> 0, done |-> 0,
   pending |-> NULL, settled |-> NULL]

\* a browser whose storage holds only an item of another application
OtherItems == [theme |-> "dark"]

NoKeys ==
  /\ window = TRUE
  /\ localStorage = OtherItems
  /\ keyLog = << >>

\* no stream is being read
NoReader ==
  [wire |-> << >>, offset |-> 0, buffer |-> << >>, applied |-> << >>,
   midLine |-> FALSE, done |-> FALSE]

NoDocument ==
  /\ reader = NoReader
  /\ post = NoPost
  /\ pdf = NoPdf
  /\ tess = NoTess
  /\ client = NoClient
  /\ NoKeys

libVars ==
  << libSession, libPrev, libOp, libOut, ocr, docVars, keyVars, reader >>

pageVars == << selectedFile, selectedProviders, credentialModes, storedKeys,
               providersMissingKeys, isLoading, benchmarkResults,
               abortControllerRef, runs >>

RunIds == 1..MaxRuns

\* a run none of whose callbacks is pending
NoRun ==
  [aborted |-> FALSE,
   ops |-> [id \in ProviderIds |-> "none"],
   serverProcessedProviders |-> << >>,
   stream |-> "none",
   sent |-> {},
   malformed |-> FALSE,   \* the stream has carried a line JSON.parse rejects
   discarded |-> FALSE]   \* a result of the run was dropped at the abort check

IsLive(run) ==
  \/ \E id \in ProviderIds : run.ops[id] = "inflight"
  \/ run.stream \in {"fetching", "reading"}

\* the closures of a run are dropped with its last pending callback
Retire(run) == IF IsLive(run) THEN run ELSE NoRun

\* getStoredApiKey(id) is truthy
hasStoredKey(keys, id) == id \in keys

computeMissingKeys(sel, modes, keys) ==
  SelectSeq(sel, LAMBDA id :
     IF ~supportsBYOK(id) THEN FALSE
     ELSE IF modes[id] = "server" THEN FALSE
     ELSE ~hasStoredKey(keys, id))

clientSideProviders(sel) == SelectSeq(sel, LAMBDA id : isClientSide(id))

serverProviders(sel) == SelectSeq(sel, LAMBDA id : ~isClientSide(id))

byokProviders_noKeyCheck(sel, modes, keys) ==
  SelectSeq(serverProviders(sel), LAMBDA id :
     IF ~supportsBYOK(id) THEN FALSE
     ELSE IF modes[id] = "server" THEN FALSE
     ELSE TRUE)

byokProviders(sel, modes, keys) ==
  SelectSeq(serverProviders(sel), LAMBDA id :
     IF ~supportsBYOK(id) THEN FALSE
     ELSE IF modes[id] = "server" THEN FALSE
     ELSE hasStoredKey(keys, id))

serverProcessedProviders_all(sel, modes, keys) == serverProviders(sel)

serverProcessedProviders(sel, modes, keys) ==
  SelectSeq(serverProviders(sel), LAMBDA id :
     IF ~supportsBYOK(id) THEN TRUE
     ELSE IF modes[id] = "server" THEN TRUE
     ELSE ~hasStoredKey(keys, id))

\* the record processBenchmarkProvider resolves with; settled is what the
\* engine call did: [ok |-> TRUE, value |-> r] or [ok |-> FALSE, error |-> e]
processBenchmarkProvider_keepResult(providerId, settled) ==
  [providerId |-> providerId,
   providerName |-> providerName(providerId),
   result |-> CHOOSE r \in OCRResults : TRUE,
   error |-> IF settled.ok THEN NULL ELSE settled.error,
   status |-> IF settled.ok THEN "completed" ELSE "error"]

processBenchmarkProvider(providerId, settled) ==
  IF settled.ok
  THEN [providerId |-> providerId,
        providerName |-> providerName(providerId),
        result |-> settled.value,
        error |-> NULL,
        status |-> "completed"]
  ELSE [providerId |-> providerId,
        providerName |-> providerName(providerId),
        result |-> NULL,
        error |-> settled.error,
        status |-> "error"]

\* the record the stream's catch handler patches each mediated provider with
streamFailureResult(providerId, err) ==
  [providerId |-> providerId,
   providerName |-> providerName(providerId),
   result |-> NULL,
   error |-> err,
   status |-> "error"]

updateSingleResult_noAbortCheck(aborted, prev, result) ==
  IF prev = NULL THEN prev
  ELSE updateBenchmarkResult(prev, result.providerId, result)

\* updateSingleResult of a run: aborted is its abortController.signal.aborted
updateSingleResult(aborted, prev, result) ==
  IF aborted THEN prev
  ELSE IF prev = NULL THEN prev
  ELSE updateBenchmarkResult(prev, result.providerId, result)

RECURSIVE updateEach(_, _, _)
updateEach(aborted, prev, results) ==
  IF results = << >> THEN prev
  ELSE updateEach(aborted, updateSingleResult(aborted, prev, Head(results)),
                  Tail(results))

completionEffect_restamp(results, now) ==
  IF results # NULL /\ isBenchmarkComplete(results)
  THEN [results EXCEPT !.completedAt = now]
  ELSE results

\* the completion effect's setBenchmarkResults; now is Date.now()
completionEffect(results, now) ==
  IF results # NULL /\ isBenchmarkComplete(results) /\ results.completedAt = 0
  THEN [results EXCEPT !.completedAt = now]
  ELSE results

\* the completion effect's setIsLoading(false)
completionLoading(results, loading) ==
  IF results # NULL /\ isBenchmarkComplete(results) THEN FALSE ELSE loading

\* Date.now() is read only when the completion effect stamps completedAt
Now(results) ==
  IF results # NULL /\ isBenchmarkComplete(results) THEN Times ELSE {0}

\* a callback of run r applies results through updateSingleResult; the render
\* of a changed benchmarkResults is followed by the completion effect, which
\* changes nothing when it runs on a state it has already seen
ApplyResults(r, results) ==
  LET next == updateEach(runs[r].aborted, benchmarkResults, results)
  IN /\ \E now \in Now(next) : benchmarkResults' = completionEffect(next, now)
     /\ isLoading' = completionLoading(next, isLoading)

\* the selections handleProviderToggle can build: distinct registered ids,
\* in any order, at most MAX_BENCHMARK_PROVIDERS of them
Selections ==
  {sel \in UNION {[1..n -> ProviderIds] : n \in 0..MaxSelected} :
     /\ Len(sel) <= MAX_BENCHMARK_PROVIDERS
     /\ \A i, j \in DOMAIN sel : i # j => sel[i] # sel[j]}

\* The selection and the credential modes are those the user has set up in
\* the ProviderSelector before the first run; the key storage is empty.
Init ==
  /\ selectedFile = FALSE
  /\ selectedProviders \in Selections
  /\ credentialModes \in [BYOKIds -> {"server", "byok"}]
  /\ storedKeys = {}
  /\ providersMissingKeys =
       computeMissingKeys(selectedProviders, credentialModes, storedKeys)
  /\ isLoading = FALSE
  /\ benchmarkResults = NULL
  /\ abortControllerRef = 0
  /\ runs = [r \in RunIds |-> NoRun]
  /\ libSession = NULL
  /\ libPrev = NULL
  /\ libOp = NULL
  /\ libOut = NULL
  /\ ocr = NoCall
  /\ NoDocument

\* UploadZone is disabled while isLoading
handleFileSelect ==
  /\ ~isLoading
  /\ selectedFile' = TRUE
  /\ benchmarkResults' = NULL
  /\ UNCHANGED << selectedProviders, credentialModes, storedKeys,
                  providersMissingKeys, isLoading, abortControllerRef, runs >>
  /\ UNCHANGED libVars

\* abortController.abort(): the run's later updateSingleResult calls return
\* at the abort check and its fetch or reader.read() rejects with AbortError,
\* so what the run captured for its stream is not read again
Abort(run) ==
  [run EXCEPT !.aborted = TRUE,
              !.ops = [id \in ProviderIds |->
                         IF @[id] = "inflight" THEN "inflight" ELSE "none"],
              !.serverProcessedProviders = << >>,
              !.sent = {},
              !.malformed = FALSE,
              !.stream = IF @ \in {"fetching", "reading"} THEN "reading"
                         ELSE @]

handleClear ==
  /\ runs' = IF abortControllerRef # 0 /\ IsLive(runs[abortControllerRef])
             THEN [runs EXCEPT ![abortControllerRef] = Abort(@)]
             ELSE runs
  /\ abortControllerRef' = 0
  /\ selectedFile' = FALSE
  /\ benchmarkResults' = NULL
  /\ isLoading' = FALSE
  /\ UNCHANGED << selectedProviders, credentialModes, storedKeys,
                  providersMissingKeys >>
  /\ UNCHANGED libVars

\* InlineKeyInput.handleSubmit: storeApiKey, then handleBenchmarkKeyProvided
handleBenchmarkKeyProvided(providerId) ==
  /\ ~isLoading
  /\ Includes(providersMissingKeys, providerId)
  /\ storedKeys' = storedKeys \cup {providerId}
  /\ providersMissingKeys' =
       computeMissingKeys(selectedProviders, credentialModes, storedKeys')
  /\ UNCHANGED << selectedFile, selectedProviders, credentialModes, isLoading,
                  benchmarkResults, abortControllerRef, runs >>
  /\ UNCHANGED libVars

\* removeApiKey on the shared localStorage: no dependency of the
\* providersMissingKeys memo changes.  A run reads the storage only while
\* it dispatches, so removals during a run are left to the time after it.
removeApiKey(providerId) ==
  /\ ~isLoading
  /\ providerId \in storedKeys
  /\ storedKeys' = storedKeys \ {providerId}
  /\ UNCHANGED << selectedFile, selectedProviders, credentialModes,
                  providersMissingKeys, isLoading, benchmarkResults,
                  abortControllerRef, runs >>
  /\ UNCHANGED libVars

\* the Button's isButtonDisabled, in benchmark mode
isButtonDisabled ==
  \/ ~selectedFile
  \/ isLoading
  \/ Len(selectedProviders) = 0
  \/ Len(providersMissingKeys) > 0

handleProcessBenchmark ==
  /\ ~isButtonDisabled
  /\ selectedFile /\ Len(selectedProviders) # 0
  /\ \E r \in RunIds : ~IsLive(runs[r])
  /\ LET r == CHOOSE q \in RunIds :
                /\ ~IsLive(runs[q])
                /\ \A p \in RunIds : ~IsLive(runs[p]) => q <= p
         initialResults ==
           createInitialBenchmarkResults(
             [i \in DOMAIN selectedProviders |->
                [id |-> selectedProviders[i],
                 name |-> providerName(selectedProviders[i])]])
         currentResults ==
           [initialResults EXCEPT
              !.results = [i \in DOMAIN initialResults.results |->
                 [initialResults.results[i] EXCEPT !.status = "processing"]]]
         dispatched ==
           Range(clientSideProviders(selectedProviders))
           \cup Range(byokProviders(selectedProviders, credentialModes,
                                    storedKeys))
         mediated ==
           serverProcessedProviders(selectedProviders, credentialModes,
                                    storedKeys)
     IN /\ \E now \in Now(currentResults) :
              benchmarkResults' = completionEffect(currentResults, now)
        /\ isLoading' = completionLoading(currentResults, TRUE)
        /\ runs' = [runs EXCEPT ![r] =
             [aborted |-> FALSE,
              ops |-> [id \in ProviderIds |->
                         IF id \in dispatched THEN "inflight" ELSE "none"],
              serverProcessedProviders |-> mediated,
              stream |-> IF Len(mediated) > 0 THEN "fetching" ELSE "none",
              sent |-> {},
              malformed |-> FALSE,
              discarded |-> FALSE]]
        /\ abortControllerRef' = r
  /\ UNCHANGED << selectedFile, selectedProviders, credentialModes,
                  storedKeys, providersMissingKeys >>
  /\ UNCHANGED libVars

\* a Local/Direct operation of run r settles; .then(updateSingleResult)
ProviderSettles(r, providerId, settled) ==
  /\ runs[r].ops[providerId] = "inflight"
  /\ runs' = [runs EXCEPT ![r] =
       Retire([@ EXCEPT
                 !.ops[providerId] =
                    IF runs[r].aborted THEN "none" ELSE "settled",
                 !.discarded = runs[r].aborted])]
  /\ ApplyResults(r, << processBenchmarkProvider(providerId, settled) >>)
  /\ UNCHANGED << selectedFile, selectedProviders, credentialModes,
                  storedKeys, providersMissingKeys, abortControllerRef >>
  /\ UNCHANGED libVars

\* fetch resolves with response.ok and a body
StreamOpens(r) ==
  /\ runs[r].stream = "fetching"
  /\ ~runs[r].aborted
  /\ runs' = [runs EXCEPT ![r].stream = "reading"]
  /\ UNCHANGED << selectedFile, selectedProviders, credentialModes,
                  storedKeys, providersMissingKeys, isLoading,
                  benchmarkResults, abortControllerRef >>
  /\ UNCHANGED libVars

\* a line "data: <json>" carrying the outcome event of one mediated provider;
\* hasDone: the line contains the text [DONE]
StreamData(r, event, hasDone) ==
  /\ runs[r].stream = "reading"
  /\ ~runs[r].aborted
  /\ Includes(runs[r].serverProcessedProviders, event.providerId)
  /\ event.providerId \notin runs[r].sent
  /\ runs' = [runs EXCEPT ![r].sent = @ \cup {event.providerId}]
  /\ ApplyResults(r, IF hasDone THEN << >> ELSE << event >>)
  /\ UNCHANGED << selectedFile, selectedProviders, credentialModes,
                  storedKeys, providersMissingKeys, abortControllerRef >>
  /\ UNCHANGED libVars

\* a line "data: <payload>" whose payload JSON.parse rejects: the catch block
\* of the read loop ignores it
StreamMalformed(r) ==
  /\ runs[r].stream = "reading"
  /\ ~runs[r].aborted
  /\ ~runs[r].malformed
  /\ runs' = [runs EXCEPT ![r].malformed = TRUE]
  /\ ApplyResults(r, << >>)
  /\ UNCHANGED << selectedFile, selectedProviders, credentialModes,
                  storedKeys, providersMissingKeys, abortControllerRef >>
  /\ UNCHANGED libVars

\* reader.read() reports done, after the server has sent every event
StreamDone(r) ==
  /\ runs[r].stream = "reading"
  /\ ~runs[r].aborted
  /\ runs[r].sent = Range(runs[r].serverProcessedProviders)
  /\ runs' = [runs EXCEPT ![r] = Retire([@ EXCEPT !.stream = "ended"])]
  /\ UNCHANGED << selectedFile, selectedProviders, credentialModes,
                  storedKeys, providersMissingKeys, isLoading,
                  benchmarkResults, abortControllerRef >>
  /\ UNCHANGED libVars

\* the response is not ok, or fetch or reader.read() rejects with an error
\* other than AbortError (so before any abort): the catch handler marks
\* every mediated provider
StreamFails(r, err) ==
  /\ runs[r].stream \in {"fetching", "reading"}
  /\ ~runs[r].aborted
  /\ runs' = [runs EXCEPT ![r] = Retire([@ EXCEPT !.stream = "failed"])]
  /\ ApplyResults(r,
       [i \in DOMAIN runs[r].serverProcessedProviders |->
          streamFailureResult(runs[r].serverProcessedProviders[i], err)])
  /\ UNCHANGED << selectedFile, selectedProviders, credentialModes,
                  storedKeys, providersMissingKeys, abortControllerRef >>
  /\ UNCHANGED libVars

\* the aborted signal rejects fetch or reader.read() with AbortError
StreamAborts(r) ==
  /\ runs[r].stream \in {"fetching", "reading"}
  /\ runs[r].aborted
  /\ runs' = [runs EXCEPT ![r] = Retire([@ EXCEPT !.stream = "aborted"])]
  /\ UNCHANGED << selectedFile, selectedProviders, credentialModes,
                  storedKeys, providersMissingKeys, isLoading,
                  benchmarkResults, abortControllerRef >>
  /\ UNCHANGED libVars

Settlements ==
  {[ok |-> TRUE, value |-> v] : v \in OCRResults}
  \cup {[ok |-> FALSE, error |-> e] : e \in ErrorMessages}

Failures == {s \in Settlements : ~s.ok}

Successes == {s \in Settlements : s.ok}

\* the outcome events the server sends
StreamEvents ==
  {processBenchmarkProvider(id, s) : id \in ProviderIds, s \in Settlements}

Next ==
  \/ handleFileSelect
  \/ handleClear
  \/ \E id \in BYOKIds : handleBenchmarkKeyProvided(id)
  \/ \E id \in BYOKIds : removeApiKey(id)
  \/ handleProcessBenchmark
  \/ \E r \in RunIds, id \in ProviderIds, s \in Settlements :
        ProviderSettles(r, id, s)
  \/ \E r \in RunIds : StreamOpens(r)
  \/ \E r \in RunIds, e \in StreamEvents, hasDone \in BOOLEAN :
        StreamData(r, e, hasDone)
  \/ \E r \in RunIds : StreamMalformed(r)
  \/ \E r \in RunIds : StreamDone(r)
  \/ \E r \in RunIds, err \in ErrorMessages : StreamFails(r, err)
  \/ \E r \in RunIds : StreamAborts(r)

Spec == Init /\ [][Next]_vars

\* Every operation in flight eventually settles, and every open stream is
\* eventually opened, fed, ended or rejected; the user is free to act or not.
Fairness ==
  \A r \in RunIds :
     /\ WF_vars(\E id \in ProviderIds, s \in Settlements :
                  ProviderSettles(r, id, s))
     /\ WF_vars(StreamOpens(r))
     /\ WF_vars(\E e \in StreamEvents, hasDone \in BOOLEAN :
                  StreamData(r, e, hasDone))
     /\ WF_vars(StreamDone(r))
     /\ WF_vars(StreamAborts(r))

LiveSpec == Spec /\ Fairness

(* ------------------------------------- benchmark.ts called on its own *)
LibIds == {"p1", "p2", "p3"}

LibProviders ==
  {ps \in UNION {[1..n -> [id : LibIds, name : {"Provider"}]] :
                   n \in 0..MaxLibLen} :
     \A i, j \in DOMAIN ps : i # j => ps[i].id # ps[j].id}

\* Partial<BenchmarkProviderResult> values callers and tests pass
LibUpdates ==
  {[status |-> "completed", result |-> v] : v \in OCRResults}
  \cup {[status |-> "error", error |-> e] : e \in ErrorMessages}
  \cup {[status |-> "completed"], [status |-> "processing"]}
  \cup {[status |-> "completed", result |-> v, error |-> NULL] :
          v \in OCRResults}
  \cup {[status |-> "error", result |-> NULL, error |-> e] :
          e \in ErrorMessages}

InitLib ==
  /\ selectedFile = FALSE
  /\ selectedProviders = << >>
  /\ credentialModes = [id \in BYOKIds |-> "byok"]
  /\ storedKeys = {}
  /\ providersMissingKeys = << >>
  /\ isLoading = FALSE
  /\ benchmarkResults = NULL
  /\ abortControllerRef = 0
  /\ runs = [r \in RunIds |-> NoRun]
  /\ libSession \in {createInitialBenchmarkResults(ps) : ps \in LibProviders}
  /\ libPrev = NULL
  /\ libOp = NULL
  /\ libOut = NULL
  /\ ocr = NoCall
  /\ NoDocument

LibUpdate(providerId, update) ==
  /\ libSession' = updateBenchmarkResult(libSession, providerId, update)
  /\ libPrev' = libSession
  /\ libOp' = [providerId |-> providerId, update |-> update]
  /\ UNCHANGED << pageVars, libOut, ocr, docVars, keyVars,
                  reader >>

NextLib ==
  \E id \in LibIds \cup {"non-existent"}, update \in LibUpdates :
     LibUpdate(id, update)

SpecLib == InitLib /\ [][NextLib]_vars

(* ------------------------------------- statistics and exports of a session *)
\* results of different durations and text lengths
ReportResults ==
  {[text |-> t,
    pages |-> << [pageNumber |-> 1, text |-> t] >>,
    processingTimeMs |-> ms] :
     t \in {str \in Strings : \A i \in DOMAIN str : str[i] = "a"},
     ms \in Times}

\* error messages, as their characters: plain, with a quote, with a comma,
\* and of two lines
ReportErrors ==
  {[message |-> m] :
     m \in { <<"Failed">>, <<"a", "\"", "b">>, <<"a", ",", "b">>,
             <<"line 1", "\n", "line 2">> }}

\* what an outcome can hold besides its provider: each state a run leaves
\* it in, and completed without a result, as a partial patch leaves it
ReportOutcomes ==
  {[status |-> st, result |-> NULL, error |-> NULL] :
     st \in {"pending", "processing", "completed"}}
  \cup {[status |-> "error", result |-> NULL, error |-> e] :
          e \in ReportErrors}
  \cup {[status |-> "completed", result |-> v, error |-> NULL] :
          v \in ReportResults}

ReportIds == [i \in 1..MaxOutcomes |-> "p" \o ToString(i)]

ReportSessions ==
  {[results |-> [i \in DOMAIN os |->
                   [providerId |-> ReportIds[i],
                    providerName |-> "Provider",
                    result |-> os[i].result,
                    error |-> os[i].error,
                    status |-> os[i].status]],
    completedAt |-> 0] :
     os \in UNION {[1..n -> ReportOutcomes] : n \in 0..MaxOutcomes}}

InitReport ==
  /\ selectedFile = FALSE
  /\ selectedProviders = << >>
  /\ credentialModes = [id \in BYOKIds |-> "byok"]
  /\ storedKeys = {}
  /\ providersMissingKeys = << >>
  /\ isLoading = FALSE
  /\ benchmarkResults = NULL
  /\ abortControllerRef = 0
  /\ runs = [r \in RunIds |-> NoRun]
  /\ libSession \in ReportSessions
  /\ libPrev = NULL
  /\ libOp = NULL
  /\ libOut = NULL
  /\ ocr = NoCall
  /\ NoDocument

Compare ==
  /\ libOut = NULL
  /\ libOut' = [fn |-> "compareBenchmarks",
                value |-> compareBenchmarks(libSession)]
  /\ UNCHANGED << pageVars, libSession, libPrev, libOp, ocr, docVars, keyVars,
                  reader >>

ExportJSON ==
  /\ libOut = NULL
  /\ libOut' = [fn |-> "exportAsJSON", value |-> exportAsJSON(libSession)]
  /\ UNCHANGED << pageVars, libSession, libPrev, libOp, ocr, docVars, keyVars,
                  reader >>

ExportCSV ==
  /\ libOut = NULL
  /\ libOut' = [fn |-> "exportAsCSV", value |-> exportAsCSV(libSession)]
  /\ UNCHANGED << pageVars, libSession, libPrev, libOp, ocr, docVars, keyVars,
                  reader >>

NextReport ==
  \/ Compare
  \/ ExportJSON
  \/ ExportCSV

SpecReport == InitReport /\ [][NextReport]_vars

(* --------------------------------------------------- provider runs *)
\* the ids processOCR is called with: registered, not registered (the tests'
\* "unknown-provider" and ""), and names of Object.prototype members
CalledIds == {"tesseract", "unknown-provider", "", "constructor", "toString"}

\* the imageBuffers POST passes: page k of the document at position k
ImageLists ==
  {[i \in 1..n |-> [mimeType |-> "image/png", pageNumber |-> i]] :
     n \in 0..MaxPages}

\* what provider.process does with a page
Recognitions ==
  {[ok |-> TRUE, value |-> t] : t \in Strings}
  \cup {[ok |-> FALSE, error |-> [message |-> <<"recognition failed">>]]}

Elapsed == 0..MaxTime

\* processOCR up to the loop: getProvider and the unknown-provider check
processOCR(providerId, imageBuffers) ==
  /\ ocr.status = "idle"
  /\ ocr' =
       IF getProvider(providerId) = NULL
       THEN [NoCall EXCEPT
               !.fn = "processOCR", !.status = "rejected",
               !.providerId = providerId, !.imageBuffers = imageBuffers,
               !.error = [message |-> <<"Unknown provider: ", providerId>>]]
       ELSE [NoCall EXCEPT
               !.fn = "processOCR", !.status = "running",
               !.providerId = providerId, !.imageBuffers = imageBuffers]
  /\ UNCHANGED << pageVars, libSession, libPrev, libOp, libOut, docVars, keyVars,
                  reader >>

processOCRPage_keepPartial(recognition) ==
  /\ ocr.fn = "processOCR" /\ ocr.status = "running"
  /\ Len(ocr.pages) < Len(ocr.imageBuffers)
  /\ getProvider(ocr.providerId).process
  /\ LET image == ocr.imageBuffers[Len(ocr.pages) + 1]
     IN ocr' =
          IF recognition.ok
          THEN [ocr EXCEPT
                  !.invoked = Append(@, image.pageNumber),
                  !.pages = Append(@, [pageNumber |-> image.pageNumber,
                                       text |-> recognition.value])]
          ELSE [ocr EXCEPT
                  !.invoked = Append(@, image.pageNumber),
                  !.status = "returned",
                  !.result =
                     [text |-> join([i \in DOMAIN ocr.pages |->
                                       ocr.pages[i].text], <<"\n", "\n">>),
                      pages |-> ocr.pages,
                      processingTimeMs |-> 0,
                      provider |-> getProvider(ocr.providerId).name]]
  /\ UNCHANGED << pageVars, libSession, libPrev, libOp, libOut, docVars, keyVars,
                  reader >>

\* one turn of the loop: await provider.process(buffer, mimeType), then push
processOCRPage(recognition) ==
  /\ ocr.fn = "processOCR" /\ ocr.status = "running"
  /\ Len(ocr.pages) < Len(ocr.imageBuffers)
  /\ LET image == ocr.imageBuffers[Len(ocr.pages) + 1]
         provider == getProvider(ocr.providerId)
     IN ocr' =
          IF ~provider.process
          THEN [ocr EXCEPT
                  !.status = "rejected",
                  !.error =
                     [message |-> <<"provider.process is not a function">>]]
          ELSE IF recognition.ok
          THEN [ocr EXCEPT
                  !.invoked = Append(@, image.pageNumber),
                  !.pages = Append(@, [pageNumber |-> image.pageNumber,
                                       text |-> recognition.value])]
          ELSE [ocr EXCEPT
                  !.invoked = Append(@, image.pageNumber),
                  !.status = "rejected",
                  !.error = recognition.error]
  /\ UNCHANGED << pageVars, libSession, libPrev, libOp, libOut, docVars, keyVars,
                  reader >>

\* after the loop: the result is assembled and returned
processOCRReturn(elapsed) ==
  /\ ocr.fn = "processOCR" /\ ocr.status = "running"
  /\ Len(ocr.pages) = Len(ocr.imageBuffers)
  /\ ocr' = [ocr EXCEPT
               !.status = "returned",
               !.result =
                  [text |-> join([i \in DOMAIN ocr.pages |-> ocr.pages[i].text],
                                 <<"\n", "\n">>),
                   pages |-> ocr.pages,
                   processingTimeMs |-> elapsed,
                   provider |-> getProvider(ocr.providerId).name]]
  /\ UNCHANGED << pageVars, libSession, libPrev, libOp, libOut, docVars, keyVars,
                  reader >>

\* the responses of the Mistral OCR API: pages with their markdown
MistralResponses ==
  {[pages |-> [i \in DOMAIN ms |-> [markdown |-> ms[i]]]] :
     ms \in UNION {[1..n -> Strings] : n \in 0..MaxPages}}

MistralReturns(data, elapsed) ==
  /\ ocr.status = "idle"
  /\ ocr' = [NoCall EXCEPT !.fn = "processMistralOCR", !.status = "returned",
                           !.providerId = "mistral",
                           !.result = processMistralOCR(data, elapsed)]
  /\ UNCHANGED << pageVars, libSession, libPrev, libOp, libOut, docVars, keyVars,
                  reader >>

GoogleReturns(extractedText, elapsed) ==
  /\ ocr.status = "idle"
  /\ ocr' = [NoCall EXCEPT !.fn = "processGoogleVisionOCR",
                           !.status = "returned", !.providerId = "google",
                           !.result = processGoogleVisionOCR(extractedText,
                                                            elapsed)]
  /\ UNCHANGED << pageVars, libSession, libPrev, libOp, libOut, docVars, keyVars,
                  reader >>

NextOCR ==
  \/ \E id \in CalledIds, images \in ImageLists : processOCR(id, images)
  \/ \E recognition \in Recognitions : processOCRPage(recognition)
  \/ \E elapsed \in Elapsed : processOCRReturn(elapsed)
  \/ \E data \in MistralResponses, elapsed \in Elapsed :
        MistralReturns(data, elapsed)
  \/ \E text \in Strings, elapsed \in Elapsed : GoogleReturns(text, elapsed)

InitOCR ==
  /\ Init
  /\ selectedProviders = << >>
  /\ credentialModes = [id \in BYOKIds |-> "byok"]

SpecOCR == InitOCR /\ [][NextOCR]_vars

(* ---------------------------------------------- app/api/ocr/route.ts *)
MAX_FILE_SIZE == 10 * 1024 * 1024

SUPPORTED_IMAGE_TYPES == {"image/png", "image/jpeg", "image/webp", "image/tiff"}

\* the media types a File can declare: those of the ingestion boundary,
\* the alias image/jpg, types no part of the program knows, and none
MediaTypes ==
  {"image/png", "image/jpeg", "image/webp", "image/tiff", "image/gif",
   "image/bmp", "application/pdf", "image/jpg", "image/svg+xml", "text/plain",
   ""}

FileSizes == {0, MAX_FILE_SIZE, MAX_FILE_SIZE + 1}

Documents ==
  {[entry |-> "file", size |-> n, type |-> t] :
     n \in FileSizes, t \in MediaTypes}

\* a form entry that is not a file is a string
TextEntries(values) == {[entry |-> "text", value |-> v] : v \in values}

\* the requests that carry document d: a body that is not form data, and
\* forms with or without the two entries
Requests(d) ==
  {[formData |-> NULL]}
  \cup {[formData |-> [file |-> f, provider |-> p]] :
          f \in {NULL, d} \cup TextEntries({"", "x"}),
          p \in {NULL} \cup TextEntries({"", "tesseract", "mistral",
                                         "constructor"})}

\* !entry, for what formData.get returns
falsy(entry) ==
  \/ entry = NULL
  \/ entry.entry = "text" /\ entry.value = ""

\* a provider entry read as the string POST takes it for
providerOf(formData) == formData.provider.value

\* file.size > MAX_FILE_SIZE; a string has no size, and undefined > n is false
tooLarge(file) == file.entry = "file" /\ file.size > MAX_FILE_SIZE

\* file.type; undefined for a string
mimeTypeOf(file) == IF file.entry = "file" THEN file.type ELSE "undefined"

isPDF(mimeType) == mimeType = "application/pdf"

isImage_boundary(mimeType) ==
  mimeType \in SUPPORTED_IMAGE_TYPES \cup {"image/gif", "image/bmp"}

isImage(mimeType) == mimeType \in SUPPORTED_IMAGE_TYPES

json(status, success, error, result) ==
  [status |-> status, success |-> success, error |-> error, result |-> result]

validate_noTypeCheck(formData) ==
  IF falsy(formData.file)
  THEN json(400, FALSE, <<"No file provided">>, NULL)
  ELSE IF falsy(formData.provider)
  THEN json(400, FALSE, <<"No provider specified">>, NULL)
  ELSE IF providerOf(formData) \notin getAvailableProviders
  THEN json(400, FALSE, <<"Invalid provider. Available: ", "tesseract">>, NULL)
  ELSE IF tooLarge(formData.file)
  THEN json(400, FALSE, <<"File too large. Maximum size is 10MB">>, NULL)
  ELSE NULL

\* the checks of POST in their order: the response of the first that fails,
\* or NULL when the request passes them all
validate(formData) ==
  IF falsy(formData.file)
  THEN json(400, FALSE, <<"No file provided">>, NULL)
  ELSE IF falsy(formData.provider)
  THEN json(400, FALSE, <<"No provider specified">>, NULL)
  ELSE IF providerOf(formData) \notin getAvailableProviders
  THEN json(400, FALSE, <<"Invalid provider. Available: ", "tesseract">>, NULL)
  ELSE IF tooLarge(formData.file)
  THEN json(400, FALSE, <<"File too large. Maximum size is 10MB">>, NULL)
  ELSE IF ~isPDF(mimeTypeOf(formData.file))
          /\ ~isImage(mimeTypeOf(formData.file))
  THEN json(400, FALSE,
            <<"Unsupported file type. Please upload a PDF or image.">>, NULL)
  ELSE NULL

\* POST up to its first call: formData(), the checks, and the buffer
PostValidate ==
  /\ post.pc = "received"
  /\ post' =
       IF post.request.formData = NULL
       THEN [post EXCEPT
               !.pc = "responded",
               !.response = json(500, FALSE, <<"Failed to parse body">>, NULL)]
       ELSE LET formData == post.request.formData
                rejection == validate(formData)
            IN IF rejection # NULL
               THEN [post EXCEPT !.pc = "responded", !.response = rejection]
               ELSE IF isPDF(mimeTypeOf(formData.file))
               THEN [post EXCEPT !.pc = "pdfToImages"]
               ELSE [post EXCEPT
                       !.pc = "processOCR",
                       !.imageBuffers =
                          << [mimeType |-> mimeTypeOf(formData.file),
                              pageNumber |-> 1] >>]
  /\ UNCHANGED << pageVars, keyVars, reader, libSession, libPrev, libOp, libOut, ocr, pdf, tess,
                  client >>

\* await pdfToImages(buffer), then the page images in their order
PostConverted ==
  /\ post.pc = "pdfToImages"
  /\ pdf.pc = "settled"
  /\ post' =
       IF pdf.settled.ok
       THEN [post EXCEPT
               !.pc = "processOCR",
               !.imageBuffers =
                  [i \in 1..pdf.settled.pages |->
                     [mimeType |-> "image/png", pageNumber |-> i]]]
       ELSE [post EXCEPT
               !.pc = "responded",
               !.response = json(500, FALSE, pdf.settled.error.message, NULL)]
  /\ UNCHANGED << pageVars, keyVars, reader, libSession, libPrev, libOp, libOut, ocr, pdf, tess,
                  client >>

\* the call of processOCR with the provider entry and the images
PostProcessOCR ==
  /\ post.pc = "processOCR"
  /\ processOCR(providerOf(post.request.formData), post.imageBuffers)

\* await processOCR: the result, or the catch block's response
PostRespond ==
  /\ post.pc = "processOCR"
  /\ ocr.status \in {"returned", "rejected"}
  /\ post' =
       IF ocr.status = "returned"
       THEN [post EXCEPT !.pc = "responded",
                         !.response = json(200, TRUE, << >>, ocr.result)]
       ELSE [post EXCEPT !.pc = "responded",
                         !.response = json(500, FALSE, ocr.error.message, NULL)]
  /\ UNCHANGED << pageVars, keyVars, reader, libSession, libPrev, libOp, libOut, ocr, pdf, tess,
                  client >>

(* ----------------------------------------------------------- lib/pdf *)
\* what the body of pdfToImages comes to: the pages read back, or the
\* error of writeFileSync, pdftoppm or sharp
Conversions ==
  {[ok |-> TRUE, pages |-> n] : n \in 0..MaxPages}
  \cup {[ok |-> FALSE, error |-> [message |-> <<"pdftoppm failed: ">>]]}

\* mkdtempSync, before the try block
pdfToImages(created) ==
  /\ post.pc = "pdfToImages"
  /\ pdf.pc = "idle"
  /\ pdf' =
       IF created
       THEN [pdf EXCEPT !.pc = "try", !.tempDir = "created"]
       ELSE [pdf EXCEPT
               !.pc = "settled",
               !.settled = [ok |-> FALSE,
                            error |-> [message |-> <<"ENOSPC">>]]]
  /\ UNCHANGED << pageVars, keyVars, reader, libSession, libPrev, libOp, libOut, ocr, post,
                  tess, client >>

\* the try block, to its return or throw
pdfToImagesTry(conversion) ==
  /\ pdf.pc = "try"
  /\ pdf' = [pdf EXCEPT !.pc = "finally", !.pending = conversion]
  /\ UNCHANGED << pageVars, keyVars, reader, libSession, libPrev, libOp, libOut, ocr, post,
                  tess, client >>

\* rmSync(tempDir, { recursive: true, force: true })
rmSync(tempDir, pending) == "removed"

\* the finally block, then the promise settles
pdfToImagesFinally ==
  /\ pdf.pc = "finally"
  /\ pdf' = [pdf EXCEPT !.pc = "settled",
                        !.tempDir = rmSync(pdf.tempDir, pdf.pending),
                        !.pending = NULL,
                        !.settled = pdf.pending]
  /\ UNCHANGED << pageVars, keyVars, reader, libSession, libPrev, libOp, libOut, ocr, post,
                  tess, client >>

(* ------------------------------------- lib/ocr/providers/tesseract.ts *)
\* how an awaited call on a worker ends
Awaited ==
  {[ok |-> TRUE]} \cup {[ok |-> FALSE, error |-> [message |-> <<"worker error">>]]}

\* await createWorker("eng", 1, ...), before the try block
tesseractCreateWorker(awaited) ==
  /\ tess.pc = "called"
  /\ tess' =
       IF awaited.ok
       THEN [tess EXCEPT !.pc = "try", !.worker = "created"]
       ELSE [tess EXCEPT !.pc = "settled", !.settled = awaited]
  /\ UNCHANGED << pageVars, keyVars, reader, libSession, libPrev, libOp, libOut, ocr, post,
                  pdf, client >>

\* await worker.recognize(imageBuffer), in the try block
tesseractRecognize(awaited) ==
  /\ tess.pc = "try"
  /\ tess' = [tess EXCEPT !.pc = "finally", !.pending = awaited]
  /\ UNCHANGED << pageVars, keyVars, reader, libSession, libPrev, libOp, libOut, ocr, post,
                  pdf, client >>

\* finally { await worker.terminate() }, then the promise settles
tesseractFinally ==
  /\ tess.pc = "finally"
  /\ tess' = [tess EXCEPT !.pc = "settled", !.worker = "terminated",
                          !.pending = NULL, !.settled = tess.pending]
  /\ UNCHANGED << pageVars, keyVars, reader, libSession, libPrev, libOp, libOut, ocr, post,
                  pdf, client >>

(* ----------------------------- lib/ocr/providers/tesseract-browser.ts *)
validImageTypes ==
  {"image/png", "image/jpeg", "image/jpg", "image/gif", "image/webp",
   "image/bmp"}

isPdfFile(file) == file.type = "application/pdf"

isClientSideSupported(file) ==
  file.type \in validImageTypes \/ file.type = "application/pdf"

rejected(message) == [ok |-> FALSE, error |-> [message |-> message]]

\* processImageClientSide up to its first await: a PDF goes to
\* processPdfClientSide, another type is validated
processImageClientSide ==
  /\ client.pc = "called"
  /\ client' =
       IF isPdfFile(client.file)
       THEN [client EXCEPT !.pc = "processPdfClientSide"]
       ELSE IF client.file.type \notin validImageTypes
       THEN [client EXCEPT
               !.pc = "settled",
               !.settled = rejected(<<"Unsupported file type: ",
                                      client.file.type>>)]
       ELSE [client EXCEPT !.pc = "createWorker", !.pages = 1]
  /\ UNCHANGED << pageVars, keyVars, reader, libSession, libPrev, libOp, libOut, ocr, post,
                  pdf, tess >>

\* what pdfToImagesInBrowser comes to
BrowserConversions ==
  {[ok |-> TRUE, pages |-> n] : n \in 0..MaxPages}
  \cup {rejected(<<"Invalid PDF structure">>)}

\* processPdfClientSide up to the worker: isBrowserPDFSupported, the
\* conversion and the page count
processPdfClientSide(supported, conversion) ==
  /\ client.pc = "processPdfClientSide"
  /\ client' =
       IF ~supported
       THEN [client EXCEPT
               !.pc = "settled",
               !.settled =
                  rejected(<<"Browser does not support PDF conversion">>)]
       ELSE IF ~conversion.ok
       THEN [client EXCEPT !.pc = "settled", !.settled = conversion]
       ELSE IF conversion.pages = 0
       THEN [client EXCEPT
               !.pc = "settled",
               !.settled = rejected(<<"No pages found in PDF">>)]
       ELSE [client EXCEPT !.pc = "createWorker", !.pages = conversion.pages]
  /\ UNCHANGED << pageVars, keyVars, reader, libSession, libPrev, libOp, libOut, ocr, post,
                  pdf, tess >>

\* createTesseractWorker: await createWorker("eng", OEM.LSTM_ONLY, ...)
createTesseractWorker(awaited) ==
  /\ client.pc = "createWorker"
  /\ client' =
       IF awaited.ok
       THEN [client EXCEPT !.pc = "setParameters", !.worker = "created"]
       ELSE [client EXCEPT !.pc = "settled", !.settled = awaited]
  /\ UNCHANGED << pageVars, keyVars, reader, libSession, libPrev, libOp, libOut, ocr, post,
                  pdf, tess >>

\* createTesseractWorker: await worker.setParameters(...), which is not in
\* any try block; when it rejects the caller never receives the worker
setParameters(awaited) ==
  /\ client.pc = "setParameters"
  /\ client' =
       IF awaited.ok
       THEN [client EXCEPT !.pc = "try"]
       ELSE [client EXCEPT !.pc = "settled", !.settled = awaited]
  /\ UNCHANGED << pageVars, keyVars, reader, libSession, libPrev, libOp, libOut, ocr, post,
                  pdf, tess >>

\* the try block of either function: one image is read and recognized, or
\* one page of the PDF; after the last the result is returned
clientRecognize(awaited) ==
  /\ client.pc = "try"
  /\ client' =
       IF ~awaited.ok
       THEN [client EXCEPT !.pc = "finally", !.pending = awaited]
       ELSE IF client.done + 1 < client.pages
       THEN [client EXCEPT !.done = @ + 1]
       ELSE [client EXCEPT !.done = @ + 1, !.pc = "finally",
                           !.pending = awaited]
  /\ UNCHANGED << pageVars, keyVars, reader, libSession, libPrev, libOp, libOut, ocr, post,
                  pdf, tess >>

\* finally { await worker.terminate() }, then the promise settles
clientFinally ==
  /\ client.pc = "finally"
  /\ client' = [client EXCEPT !.pc = "settled", !.worker = "terminated",
                              !.pending = NULL, !.settled = client.pending]
  /\ UNCHANGED << pageVars, keyVars, reader, libSession, libPrev, libOp, libOut, ocr, post,
                  pdf, tess >>

(* ------------------------------------------- a document is processed *)
\* one document: sent to /api/ocr in some request, processed in the
\* browser, and one of its images handed to the Tesseract provider
InitDocument ==
  /\ selectedFile = FALSE
  /\ selectedProviders = << >>
  /\ credentialModes = [id \in BYOKIds |-> "byok"]
  /\ storedKeys = {}
  /\ providersMissingKeys = << >>
  /\ isLoading = FALSE
  /\ benchmarkResults = NULL
  /\ abortControllerRef = 0
  /\ runs = [r \in RunIds |-> NoRun]
  /\ libSession = NULL
  /\ libPrev = NULL
  /\ libOp = NULL
  /\ libOut = NULL
  /\ ocr = NoCall
  /\ NoKeys
  /\ reader = NoReader
  /\ pdf = NoPdf
  /\ tess = [NoTess EXCEPT !.pc = "called"]
  /\ \E d \in Documents :
        /\ client = [NoClient EXCEPT !.pc = "called", !.file = d]
        /\ \E request \in Requests(d) :
              post = [NoPost EXCEPT !.pc = "received", !.request = request]

NextDocument ==
  \/ PostValidate
  \/ \E created \in BOOLEAN : pdfToImages(created)
  \/ \E conversion \in Conversions : pdfToImagesTry(conversion)
  \/ pdfToImagesFinally
  \/ PostConverted
  \/ PostProcessOCR
  \/ \E recognition \in {r \in Recognitions : r.ok => r.value = <<"a">>} :
        processOCRPage(recognition)
  \/ \E elapsed \in Elapsed : processOCRReturn(elapsed)
  \/ PostRespond
  \/ \E awaited \in Awaited : tesseractCreateWorker(awaited)
  \/ \E awaited \in Awaited : tesseractRecognize(awaited)
  \/ tesseractFinally
  \/ processImageClientSide
  \/ \E supported \in BOOLEAN, conversion \in BrowserConversions :
        processPdfClientSide(supported, conversion)
  \/ \E awaited \in Awaited : createTesseractWorker(awaited)
  \/ \E awaited \in Awaited : setParameters(awaited)
  \/ \E awaited \in Awaited : clientRecognize(awaited)
  \/ clientFinally

SpecDocument == InitDocument /\ [][NextDocument]_vars

(* ------------------------------------- components/api-key-input.tsx *)
STORAGE_KEY_PREFIX == "justocr_byok_"

getStorageKey_shared(providerId) == STORAGE_KEY_PREFIX

getStorageKey(providerId) == STORAGE_KEY_PREFIX \o providerId

\* Storage.getItem, setItem and removeItem on the items of a storage
getItem(storage, key) ==
  IF key \in DOMAIN storage THEN [value |-> storage[key]] ELSE NULL

setItem(storage, key, value) ==
  [k \in DOMAIN storage \cup {key} |-> IF k = key THEN value ELSE storage[k]]

removeItem(storage, key) == [k \in DOMAIN storage \ {key} |-> storage[k]]

getStoredApiKey(providerId) ==
  IF ~window THEN NULL
  ELSE getItem(localStorage, getStorageKey(providerId))

\* the provider ids of the tests and the keys stored for them
KeyIds == {"mistral", "google", "custom-provider"}

KeyValues == {"", "old-key", "new-key"}

storeApiKey(providerId, key) ==
  /\ Len(keyLog) < MaxKeyCalls
  /\ keyLog' = Append(keyLog, [fn |-> "storeApiKey", providerId |-> providerId,
                               key |-> key])
  /\ localStorage' =
       IF ~window THEN localStorage
       ELSE setItem(localStorage, getStorageKey(providerId), key)
  /\ UNCHANGED << pageVars, libSession, libPrev, libOp, libOut, ocr, docVars,
                  window, reader >>

\* removeApiKey of api-key-input.tsx, on the storage itself
removeStoredApiKey(providerId) ==
  /\ Len(keyLog) < MaxKeyCalls
  /\ keyLog' = Append(keyLog, [fn |-> "removeApiKey", providerId |-> providerId,
                               key |-> ""])
  /\ localStorage' =
       IF ~window THEN localStorage
       ELSE removeItem(localStorage, getStorageKey(providerId))
  /\ UNCHANGED << pageVars, libSession, libPrev, libOp, libOut, ocr, docVars,
                  window, reader >>

\* in a browser, or where window is undefined (server-side rendering)
InitKeys ==
  /\ selectedFile = FALSE
  /\ selectedProviders = << >>
  /\ credentialModes = [id \in BYOKIds |-> "byok"]
  /\ storedKeys = {}
  /\ providersMissingKeys = << >>
  /\ isLoading = FALSE
  /\ benchmarkResults = NULL
  /\ abortControllerRef = 0
  /\ runs = [r \in RunIds |-> NoRun]
  /\ libSession = NULL
  /\ libPrev = NULL
  /\ libOp = NULL
  /\ libOut = NULL
  /\ ocr = NoCall
  /\ post = NoPost
  /\ pdf = NoPdf
  /\ tess = NoTess
  /\ client = NoClient
  /\ window \in BOOLEAN
  /\ localStorage = OtherItems
  /\ keyLog = << >>
  /\ reader = NoReader

NextKeys ==
  \/ \E providerId \in KeyIds, key \in KeyValues : storeApiKey(providerId, key)
  \/ \E providerId \in KeyIds : removeStoredApiKey(providerId)

SpecKeys == InitKeys /\ [][NextKeys]_vars

(* ------------------------- app/page.tsx: the read loop of the stream *)
\* The text of the stream is a sequence of pieces: the line break, the two
\* halves of the prefix "data: " and the payloads.  A payload is the JSON of
\* an outcome event, one whose text holds the characters [DONE], text that
\* JSON.parse rejects, or the sentinel.
DataPrefix == <<"da", "ta: ">>

Payloads ==
  [p1 |-> "{\"providerId\":\"p1\"}",
   p2 |-> "{\"providerId\":\"p2\",\"text\":\"[DONE]\"}",
   bad |-> "{\"providerId\":",
   sentinel |-> "[DONE]"]

\* the lines a server can send: outcome events, a malformed event, the
\* sentinel, the empty line between events and a comment
WireLines ==
  {DataPrefix \o << Payloads[k] >> : k \in DOMAIN Payloads}
  \cup {<< >>, <<": ping">>}

\* what is sent in all: lines joined by line breaks, the last one with or
\* without its line break
Wires ==
  LET texts == {join(ls, <<"\n">>) :
                  ls \in UNION {[1..n -> WireLines] : n \in 0..MaxLines}}
  IN texts \cup {t \o <<"\n">> : t \in texts}

\* line.startsWith("data: ")
startsWith(line, prefix) ==
  /\ Len(line) >= Len(prefix)
  /\ SubSeq(line, 1, Len(prefix)) = prefix

\* line.includes("[DONE]"): among the pieces, the sentinel and the event
\* whose text holds these characters
includes(line, search) ==
  \E i \in DOMAIN line : line[i] \in {Payloads.sentinel, Payloads.p2}

\* line.slice(6)
slice(line) == SubSeq(line, Len(DataPrefix) + 1, Len(line))

\* JSON.parse of a payload: the event, or a SyntaxError
JSONparse(text) ==
  IF text = << Payloads.p1 >> THEN [ok |-> TRUE, value |-> [providerId |-> "p1"]]
  ELSE IF text = << Payloads.p2 >>
  THEN [ok |-> TRUE, value |-> [providerId |-> "p2"]]
  ELSE [ok |-> FALSE, value |-> NULL]

\* the for loop over the complete lines: the events handed to
\* updateSingleResult, in order
RECURSIVE readLines(_)
readLines(lines) ==
  IF lines = << >> THEN << >>
  ELSE LET line == Head(lines)
           data == JSONparse(slice(line))
       IN (IF startsWith(line, DataPrefix) /\ ~includes(line, "[DONE]")
              /\ data.ok
           THEN << data.value >> ELSE << >>)
          \o readLines(Tail(lines))

pop_dropped(lines) == << >>

\* lines.pop() || "": the incomplete line that stays in the buffer
pop(lines) == lines[Len(lines)]

\* one turn of the while loop: a chunk of n pieces is decoded, appended to
\* the buffer, and the complete lines are handled
StreamRead(n) ==
  /\ ~reader.done
  /\ reader.offset + n <= Len(reader.wire)
  /\ LET value == SubSeq(reader.wire, reader.offset + 1, reader.offset + n)
         lines == split(reader.buffer \o value, "\n")
     IN reader' =
          [reader EXCEPT
             !.offset = @ + n,
             !.buffer = pop(lines),
             !.applied = @ \o readLines(SubSeq(lines, 1, Len(lines) - 1)),
             !.midLine = @ \/ (value[n] # "\n"
                               /\ reader.offset + n < Len(reader.wire))]
  /\ UNCHANGED << pageVars, libSession, libPrev, libOp, libOut, ocr, docVars,
                  keyVars >>

\* reader.read() reports done: the loop is left
StreamReadDone ==
  /\ ~reader.done
  /\ reader.offset = Len(reader.wire)
  /\ reader' = [reader EXCEPT !.done = TRUE]
  /\ UNCHANGED << pageVars, libSession, libPrev, libOp, libOut, ocr, docVars,
                  keyVars >>

InitReader ==
  /\ selectedFile = FALSE
  /\ selectedProviders = << >>
  /\ credentialModes = [id \in BYOKIds |-> "byok"]
  /\ storedKeys = {}
  /\ providersMissingKeys = << >>
  /\ isLoading = FALSE
  /\ benchmarkResults = NULL
  /\ abortControllerRef = 0
  /\ runs = [r \in RunIds |-> NoRun]
  /\ libSession = NULL
  /\ libPrev = NULL
  /\ libOp = NULL
  /\ libOut = NULL
  /\ ocr = NoCall
  /\ post = NoPost
  /\ pdf = NoPdf
  /\ tess = NoTess
  /\ client = NoClient
  /\ NoKeys
  /\ \E wire \in Wires : reader = [NoReader EXCEPT !.wire = wire]

NextReader ==
  \/ \E n \in 1..(3 * MaxLines + MaxLines) : StreamRead(n)
  \/ StreamReadDone

SpecReader == InitReader /\ [][NextReader]_vars

(* ------------------------------------------------------------ claims *)
Terminal(outcome) == outcome.status \in {"completed", "error"}

Ids(results) == [i \in DOMAIN results.results |-> results.results[i].providerId]

\* a step in which the session on display stays the same session
SameSession ==
  /\ benchmarkResults # NULL
  /\ benchmarkResults' # NULL
  /\ ~handleProcessBenchmark

\* a callback of run r runs in this step, and its patch is not dropped by
\* updateSingleResult
Applies(r) ==
  /\ runs'[r] # runs[r]
  /\ ~runs[r].aborted
  /\ benchmarkResults # NULL

\* all outcomes but those of provider id are what they were
OthersUntouched(id) ==
  /\ benchmarkResults' # NULL
  /\ Len(benchmarkResults'.results) = Len(benchmarkResults.results)
  /\ \A i \in DOMAIN benchmarkResults.results :
        benchmarkResults.results[i].providerId # id
          => benchmarkResults'.results[i] = benchmarkResults.results[i]

\* a callback of the run that created the session on display runs
StepOfSessionRun ==
  /\ SameSession
  /\ abortControllerRef # 0
  /\ runs'[abortControllerRef] # runs[abortControllerRef]

\* the session holds one terminal outcome per selected id and is complete
Completed ==
  /\ benchmarkResults # NULL
  /\ isBenchmarkComplete(benchmarkResults)
  /\ Ids(benchmarkResults) = selectedProviders
  /\ \A i \in DOMAIN benchmarkResults.results :
        Terminal(benchmarkResults.results[i])

\* C1: a run that was started and is not aborted (handleClear drops its
\* session) eventually has a complete session with one terminal outcome per
\* selected id, provided its operations settle and its stream ends or fails.
C1_BenchmarkCompleteness ==
  (benchmarkResults # NULL /\ isLoading)
     ~> (benchmarkResults = NULL \/ Completed)

\* C2: once an outcome is completed or error, no later patch of the same run
\* (a Local/Direct completion, a stream event, the stream's failure handler)
\* changes its status, result or error.
C2_TerminalOutcomesFinal ==
  [][StepOfSessionRun =>
       \A i \in DOMAIN benchmarkResults.results :
          Terminal(benchmarkResults.results[i]) =>
            /\ benchmarkResults'.results[i].status =
                 benchmarkResults.results[i].status
            /\ benchmarkResults'.results[i].result =
                 benchmarkResults.results[i].result
            /\ benchmarkResults'.results[i].error =
                 benchmarkResults.results[i].error]_vars

C4_NoPatchAfterAbort ==
  [][\A r \in RunIds :
       (runs[r].aborted /\ runs'[r] # runs[r])
         => /\ benchmarkResults' = benchmarkResults
            /\ isLoading' = isLoading]_vars

\* a later run's session is on display, still processing, after a result of
\* an aborted run was dropped
C4_Witness ==
  /\ benchmarkResults # NULL
  /\ isLoading
  /\ \E r \in RunIds :
        /\ runs[r].aborted
        /\ runs[r].discarded
        /\ \A i \in DOMAIN benchmarkResults.results :
              benchmarkResults.results[i].status = "processing"

\* C6: the providerIds of the session, in order, are the selection, in every
\* state of the session and whatever the order in which patches arrive.
C6_SelectionOrderPreserved ==
  benchmarkResults # NULL => Ids(benchmarkResults) = selectedProviders

\* the provider selected last has completed while the one selected first is
\* still processing
C6_Witness ==
  /\ benchmarkResults # NULL
  /\ Len(benchmarkResults.results) >= 2
  /\ benchmarkResults.results[1].status = "processing"
  /\ Terminal(benchmarkResults.results[Len(benchmarkResults.results)])

\* C7: completed outcomes have a result and no error, error outcomes an error
\* and no result, pending and processing outcomes neither.
C7_OutcomeWellFormed ==
  benchmarkResults # NULL =>
    \A i \in DOMAIN benchmarkResults.results :
       LET o == benchmarkResults.results[i]
       IN /\ o.status \in {"pending", "processing", "completed", "error"}
          /\ o.status = "completed" => (o.result # NULL /\ o.error = NULL)
          /\ o.status = "error" => (o.error # NULL /\ o.result = NULL)
          /\ o.status \in {"pending", "processing"}
               => (o.result = NULL /\ o.error = NULL)

\* a session holding a completed and an error outcome, reached while an
\* aborted earlier run still has operations in flight
C7_Witness ==
  /\ benchmarkResults # NULL
  /\ \E i, j \in DOMAIN benchmarkResults.results :
        /\ benchmarkResults.results[i].status = "completed"
        /\ benchmarkResults.results[j].status = "error"
  /\ \E r \in RunIds : runs[r].aborted /\ IsLive(runs[r])

FallsBack(id, modes, keys) ==
  supportsBYOK(id) /\ modes[id] # "server" /\ id \notin keys

C10_CredentialModeFallback ==
  [][/\ handleProcessBenchmark =>
          \A i \in DOMAIN selectedProviders :
             FallsBack(selectedProviders[i], credentialModes, storedKeys) =>
               /\ runs'[abortControllerRef'].ops[selectedProviders[i]] = "none"
               /\ Includes(runs'[abortControllerRef'].serverProcessedProviders,
                           selectedProviders[i])
     /\ \A r \in RunIds, id \in BYOKIds, f \in Failures :
          (/\ Applies(r)
           /\ credentialModes[id] # "server"
           /\ StreamData(r, processBenchmarkProvider(id, f), FALSE))
          => OthersUntouched(id)]_vars

\* a BYOK provider in byok mode was sent to the Mediated stream and failed
\* there, while another provider of the session did not
C10_Witness ==
  /\ benchmarkResults # NULL
  /\ \E r \in RunIds, id \in BYOKIds :
        /\ ~runs[r].aborted
        /\ credentialModes[id] # "server"
        /\ id \in runs[r].sent
        /\ \E i, j \in DOMAIN benchmarkResults.results :
              /\ benchmarkResults.results[i].providerId = id
              /\ benchmarkResults.results[i].status = "error"
              /\ benchmarkResults.results[j].status # "error"

(* claims about benchmark.ts called on its own, under SpecLib *)

\* C5: updateBenchmarkResult(session, X, patch) returns a session of the
\* same length in which every outcome whose providerId is not X is what it
\* was; when X is not in the session the results are unchanged.
C5_PerIdIsolation ==
  libOp # NULL =>
    /\ Len(libSession.results) = Len(libPrev.results)
    /\ libSession.completedAt = libPrev.completedAt
    /\ \A i \in DOMAIN libPrev.results :
          libPrev.results[i].providerId # libOp.providerId
            => libSession.results[i] = libPrev.results[i]
    /\ (\A i \in DOMAIN libPrev.results :
           libPrev.results[i].providerId # libOp.providerId)
          => libSession.results = libPrev.results

\* an error patch for one provider was applied to a session that also holds
\* an outcome of another provider, which an earlier patch had changed
C5_Witness ==
  /\ libOp # NULL
  /\ "error" \in DOMAIN libOp.update
  /\ \E i, j \in DOMAIN libPrev.results :
        /\ libPrev.results[i].providerId = libOp.providerId
        /\ libPrev.results[j].providerId # libOp.providerId
        /\ libPrev.results[j].status = "completed"
        /\ libSession.results[i].status = "error"

\* C9: isBenchmarkComplete(session) is true exactly when no outcome is
\* pending or processing; in particular for a session without outcomes.
C9_CompleteIffAllTerminal ==
  /\ isBenchmarkComplete(libSession)
       <=> Cardinality({i \in DOMAIN libSession.results :
                          libSession.results[i].status
                            \in {"pending", "processing"}}) = 0
  /\ \A i \in DOMAIN libSession.results :
        libSession.results[i].status
          \in {"pending", "processing", "completed", "error"}

\* a session of one completed and one error outcome, which is complete
C9_Witness ==
  /\ Len(libSession.results) = 2
  /\ libSession.results[1].status = "completed"
  /\ libSession.results[2].status = "error"
  /\ isBenchmarkComplete(libSession)

(* claims about the Mediated stream's read loop, under Spec *)

\* the outcome of provider id in the session is the one the event carries
Patched(results, event) ==
  \A i \in DOMAIN results.results :
     results.results[i].providerId = event.providerId
       => /\ results.results[i].status = event.status
          /\ results.results[i].result = event.result
          /\ results.results[i].error = event.error

\* C11: a data line whose payload cannot be parsed changes no outcome and
\* leaves the stream being read, and every valid outcome event that follows
\* it on the same stream is applied as a patch.
C11_MalformedEventsSkipped ==
  [][\A r \in RunIds :
       /\ StreamMalformed(r)
            => /\ benchmarkResults' = benchmarkResults
               /\ isLoading' = isLoading
               /\ runs'[r].stream = "reading"
       /\ \A e \in StreamEvents, hasDone \in BOOLEAN :
            (/\ Applies(r)
             /\ runs[r].malformed
             /\ StreamData(r, e, hasDone))
            => Patched(benchmarkResults', e)]_vars

(* claims about provider runs, under SpecOCR *)

\* C12: processOCR called with a provider id that is not in the registry
\* never returns a result, rejects only with a message that starts with
\* "Unknown provider", and invokes no provider.
C12_UnknownProviderRejected ==
  (ocr.fn = "processOCR" /\ ocr.providerId \notin getAvailableProviders) =>
     /\ ocr.status # "returned"
     /\ ocr.result = NULL
     /\ ocr.invoked = << >>
     /\ ocr.status = "rejected"
          => Head(ocr.error.message) = "Unknown provider: "

\* the pages of a result are numbered 1, 2, ... and its text is their
\* texts joined with a blank line
PageOrder(result) ==
  /\ \A i \in DOMAIN result.pages : result.pages[i].pageNumber = i
  /\ result.text =
       join([i \in DOMAIN result.pages |-> result.pages[i].text],
            <<"\n", "\n">>)

\* C13: every result a provider run returns (processOCR, processMistralOCR,
\* processGoogleVisionOCR) has its pages numbered in order from 1 and a
\* text equal to the pages' texts joined with a blank line.
C13_PageOrderInvariant ==
  ocr.status = "returned" => PageOrder(ocr.result)

\* C14: processOCR with a registered provider recognises the pages one
\* after another in input order; when the recognition of a page fails the
\* call rejects with that error, having recognised no later page, and it
\* returns a result only with every page in it.
C14_AllOrNothing ==
  (ocr.fn = "processOCR" /\ ocr.providerId \in getAvailableProviders) =>
     /\ Len(ocr.invoked) <= Len(ocr.imageBuffers)
     /\ \A i \in DOMAIN ocr.invoked :
           ocr.invoked[i] = ocr.imageBuffers[i].pageNumber
     /\ ocr.status = "rejected"
          => /\ ocr.result = NULL
             /\ ocr.error \in {r.error : r \in {x \in Recognitions : ~x.ok}}
             /\ Len(ocr.invoked) = Len(ocr.pages) + 1
     /\ ocr.status = "returned"
          => /\ ocr.error = NULL
             /\ Len(ocr.result.pages) = Len(ocr.imageBuffers)
             /\ ocr.invoked =
                  [i \in DOMAIN ocr.imageBuffers |->
                     ocr.imageBuffers[i].pageNumber]
     /\ ocr.status = "running" => Len(ocr.invoked) = Len(ocr.pages)

\* the first page was recognised, the second failed, and the call rejected
C14_Witness ==
  /\ ocr.fn = "processOCR"
  /\ ocr.status = "rejected"
  /\ Len(ocr.imageBuffers) = 2
  /\ Len(ocr.pages) = 1
  /\ ocr.invoked = <<1, 2>>

(* claims about compareBenchmarks, under SpecReport *)

Successful(outcome) == outcome.status = "completed" /\ outcome.result # NULL

\* the positions of the successful outcomes of the session
S == {i \in DOMAIN libSession.results : Successful(libSession.results[i])}

timeMs(i) == libSession.results[i].result.processingTimeMs

charCount(i) == Len(libSession.results[i].result.text)

\* the first position of set P, in the session's order
First(P) == CHOOSE i \in P : \A j \in P : i <= j

Compared == libOut # NULL /\ libOut.fn = "compareBenchmarks"

\* C15: when several successful outcomes tie for an extremum, each of
\* fastest, slowest, mostCharacters and leastCharacters names the tied
\* outcome that comes first in the session's order.
C15_TieBreakFirst ==
  (Compared /\ S # {}) =>
     /\ libOut.value.fastest.providerId =
          libSession.results[
            First({i \in S : \A j \in S : timeMs(i) <= timeMs(j)})].providerId
     /\ libOut.value.slowest.providerId =
          libSession.results[
            First({i \in S : \A j \in S : timeMs(i) >= timeMs(j)})].providerId
     /\ libOut.value.mostCharacters.providerId =
          libSession.results[
            First({i \in S : \A j \in S : charCount(i) >= charCount(j)})
          ].providerId
     /\ libOut.value.leastCharacters.providerId =
          libSession.results[
            First({i \in S : \A j \in S : charCount(i) <= charCount(j)})
          ].providerId

\* C16: with a successful outcome in the session, fastest.timeMs is the
\* least and slowest.timeMs the greatest processingTimeMs of the successful
\* outcomes, mostCharacters.charCount the greatest and
\* leastCharacters.charCount the least text length, and each names a
\* successful provider that has that value.
C16_Extrema ==
  (Compared /\ S # {}) =>
     /\ \A j \in S : /\ libOut.value.fastest.timeMs <= timeMs(j)
                     /\ libOut.value.slowest.timeMs >= timeMs(j)
                     /\ libOut.value.mostCharacters.charCount >= charCount(j)
                     /\ libOut.value.leastCharacters.charCount <= charCount(j)
     /\ \E i \in S :
           /\ libSession.results[i].providerId =
                libOut.value.fastest.providerId
           /\ timeMs(i) = libOut.value.fastest.timeMs
     /\ \E i \in S :
           /\ libSession.results[i].providerId =
                libOut.value.slowest.providerId
           /\ timeMs(i) = libOut.value.slowest.timeMs
     /\ \E i \in S :
           /\ libSession.results[i].providerId =
                libOut.value.mostCharacters.providerId
           /\ charCount(i) = libOut.value.mostCharacters.charCount
     /\ \E i \in S :
           /\ libSession.results[i].providerId =
                libOut.value.leastCharacters.providerId
           /\ charCount(i) = libOut.value.leastCharacters.charCount

\* three successful outcomes whose fastest is neither first nor last and
\* whose longest text is not the slowest's
C16_Witness ==
  /\ Compared
  /\ S = {1, 2, 3}
  /\ libOut.value.fastest.providerId = "p2"
  /\ libOut.value.slowest.providerId = "p3"
  /\ libOut.value.mostCharacters.providerId = "p1"
  /\ libOut.value.fastest.timeMs < libOut.value.slowest.timeMs
  /\ libOut.value.leastCharacters.charCount
       < libOut.value.mostCharacters.charCount

\* C17: for a session without a successful outcome the four extrema are
\* null, both averages and successCount are 0, and errorCount is the
\* number of outcomes with status error.
C17_EmptySuccessSet ==
  (Compared /\ S = {}) =>
     /\ libOut.value.fastest = NULL
     /\ libOut.value.slowest = NULL
     /\ libOut.value.mostCharacters = NULL
     /\ libOut.value.leastCharacters = NULL
     /\ libOut.value.averageTimeMs = 0
     /\ libOut.value.averageCharCount = 0
     /\ libOut.value.successCount = 0
     /\ libOut.value.errorCount =
          Cardinality({i \in DOMAIN libSession.results :
                         libSession.results[i].status = "error"})

\* statistics of a session of two error outcomes and a pending one
C17_Witness ==
  /\ Compared
  /\ Len(libSession.results) = 3
  /\ libSession.results[1].status = "error"
  /\ libSession.results[2].status = "pending"
  /\ libSession.results[3].status = "error"
  /\ libOut.value.errorCount = 2

\* C18: compareBenchmarks returns, for every session, successCount = the
\* number of successful outcomes, errorCount = the number of error
\* outcomes, and averages that are the means of processingTimeMs and of
\* the text length over the successful outcomes, rounded to the nearest
\* integer (a half rounds up).
C18_CountsAndAverages ==
  Compared =>
     LET n == Cardinality(S)
         totalTime == sum([k \in 1..Len(SelectSeq(libSession.results,
                                                  Successful)) |->
                             SelectSeq(libSession.results, Successful)[k]
                               .result.processingTimeMs])
         totalChars == sum([k \in 1..Len(SelectSeq(libSession.results,
                                                   Successful)) |->
                              Len(SelectSeq(libSession.results, Successful)[k]
                                    .result.text)])
     IN /\ libOut.value.successCount = n
        /\ libOut.value.errorCount =
             Cardinality({i \in DOMAIN libSession.results :
                            libSession.results[i].status = "error"})
        /\ n > 0 =>
             /\ 2 * libOut.value.averageTimeMs * n - 2 * totalTime \in (1 - n)..n
             /\ 2 * libOut.value.averageCharCount * n - 2 * totalChars
                  \in (1 - n)..n
        /\ n = 0 => /\ libOut.value.averageTimeMs = 0
                    /\ libOut.value.averageCharCount = 0

\* statistics of a session with a processing, an error and two successful
\* outcomes whose mean duration is not an integer
C18_Witness ==
  /\ Compared
  /\ Cardinality(S) = 2
  /\ \E i \in DOMAIN libSession.results :
        libSession.results[i].status = "error"
  /\ \E i, j \in S : timeMs(i) + 1 = timeMs(j)
  /\ libOut.value.errorCount = 1
  /\ libOut.value.successCount = 2

(* claims about the exports, under SpecReport *)

\* the records of a CSV text, each the sequence of its fields: commas and
\* line breaks separate only outside double quotes
RECURSIVE csvFrom(_, _, _, _)
csvFrom(text, inQuotes, field, record) ==
  IF text = << >> THEN << Append(record, field) >>
  ELSE IF Head(text) = "\""
       THEN csvFrom(Tail(text), ~inQuotes, Append(field, "\""), record)
  ELSE IF Head(text) = "," /\ ~inQuotes
       THEN csvFrom(Tail(text), FALSE, << >>, Append(record, field))
  ELSE IF Head(text) = "\n" /\ ~inQuotes
       THEN << Append(record, field) >>
            \o csvFrom(Tail(text), FALSE, << >>, << >>)
  ELSE csvFrom(Tail(text), inQuotes, Append(field, Head(text)), record)

csvRecords(text) == csvFrom(text, FALSE, << >>, << >>)

ExportedJSON == libOut # NULL /\ libOut.fn = "exportAsJSON"

ExportedCSV == libOut # NULL /\ libOut.fn = "exportAsCSV"

\* C19: for every outcome whose result is null, exportAsJSON emits result
\* null with the outcome's status and error, and exportAsCSV leaves the
\* processing-time, character-count and page-count fields of its row empty.
C19_ExportWithoutResult ==
  LET records == IF ExportedCSV THEN csvRecords(libOut.value) ELSE << >>
  IN \A k \in DOMAIN libSession.results :
     libSession.results[k].result = NULL =>
       /\ ExportedJSON =>
            /\ libOut.value.providers[k].providerId =
                 libSession.results[k].providerId
            /\ libOut.value.providers[k].result = JSONNull
            /\ libOut.value.providers[k].status = libSession.results[k].status
            /\ libOut.value.providers[k].error =
                 (IF libSession.results[k].error = NULL THEN JSONNull
                  ELSE libSession.results[k].error)
       /\ ExportedCSV =>
            LET row == records[k + 1]
            IN /\ Len(row) = 7
               /\ row[1] = << libSession.results[k].providerId >>
               /\ row[3] = << libSession.results[k].status >>
               /\ row[4] = << >>
               /\ row[5] = << >>
               /\ row[6] = << >>

\* the CSV export of a session whose second outcome is an error, between
\* two outcomes with results
C19_Witness ==
  /\ ExportedCSV
  /\ Len(libSession.results) = 3
  /\ libSession.results[1].result # NULL
  /\ libSession.results[2].status = "error"
  /\ libSession.results[3].result # NULL
  /\ csvRecords(libOut.value)[3][4] = << >>
  /\ csvRecords(libOut.value)[2][4] # << >>

\* C20 as stated: splitting the CSV text on line breaks gives the header
\* and one line per outcome, line k + 1 starting with the providerId of
\* outcome k.
C20_LinePerOutcome ==
  ExportedCSV =>
     LET lines == split(libOut.value, "\n")
     IN /\ Len(lines) = Len(libSession.results) + 1
        /\ lines[1] = join(csvHeaders, <<",">>)
        /\ \A k \in DOMAIN libSession.results :
              /\ lines[k + 1] # << >>
              /\ Head(lines[k + 1]) = libSession.results[k].providerId

NoLineBreakInErrors ==
  \A k \in DOMAIN libSession.results :
     libSession.results[k].error # NULL
       => \A i \in DOMAIN libSession.results[k].error.message :
             libSession.results[k].error.message[i] # "\n"

\* C20, amended: the CSV text holds the header record and one record per
\* outcome in the session's order, record k + 1 starting with the
\* providerId of outcome k; when no error message holds a line break, the
\* lines of the text are these records.
C20_RecordPerOutcome ==
  ExportedCSV =>
     LET records == csvRecords(libOut.value)
     IN /\ Len(records) = Len(libSession.results) + 1
        /\ records[1] = csvHeaders
        /\ \A k \in DOMAIN libSession.results :
              /\ Len(records[k + 1]) = 7
              /\ records[k + 1][1] = << libSession.results[k].providerId >>
        /\ NoLineBreakInErrors => C20_LinePerOutcome

\* the CSV export of three outcomes, the second with an error message of
\* two lines
C20_Witness ==
  /\ ExportedCSV
  /\ Len(libSession.results) = 3
  /\ ~NoLineBreakInErrors
  /\ libSession.results[2].status = "error"
  /\ Len(split(libOut.value, "\n")) = 5
  /\ Len(csvRecords(libOut.value)) = 4

\* the text a quoted CSV field stands for: the enclosing quotes removed and
\* each doubled quote read as one; a quote that stands alone ends the text
RECURSIVE undouble(_)
undouble(str) ==
  IF str = << >> THEN << >>
  ELSE IF Head(str) # "\"" THEN << Head(str) >> \o undouble(Tail(str))
  ELSE IF Tail(str) # << >> /\ Head(Tail(str)) = "\""
       THEN <<"\"">> \o undouble(Tail(Tail(str)))
  ELSE << >>

unquote(field) ==
  IF Len(field) >= 2 /\ Head(field) = "\"" /\ field[Len(field)] = "\""
  THEN undouble(SubSeq(field, 2, Len(field) - 1))
  ELSE field

\* C21: for every outcome with a non-empty error message, exportAsCSV
\* writes the error field of its record enclosed in double quotes with
\* every double quote of the message doubled, and reading the field back
\* gives the original message.
C21_QuoteEscaping ==
  ExportedCSV =>
    LET records == csvRecords(libOut.value)
    IN \A k \in DOMAIN libSession.results :
          LET error == libSession.results[k].error
              field == records[k + 1][7]
          IN (error # NULL /\ error.message # << >>) =>
               /\ Head(field) = "\""
               /\ field[Len(field)] = "\""
               /\ SubSeq(field, 2, Len(field) - 1) =
                    doubleQuotes(error.message)
               /\ Len(field) = Len(error.message) + 2
                    + Cardinality({i \in DOMAIN error.message :
                                     error.message[i] = "\""})
               /\ unquote(field) = error.message

\* the CSV export of a session whose first outcome failed with a message
\* that holds a double quote
C21_Witness ==
  /\ ExportedCSV
  /\ Len(libSession.results) >= 1
  /\ libSession.results[1].error # NULL
  /\ libSession.results[1].error.message = <<"a", "\"", "b">>
  /\ csvRecords(libOut.value)[2][7] = <<"\"", "a", "\"", "\"", "b", "\"">>

(* claims about the ingestion of a document, under SpecDocument *)
BoundaryTypes ==
  {"image/png", "image/jpeg", "image/webp", "image/tiff", "image/gif",
   "image/bmp", "application/pdf"}

\* a request without file or provider, with a provider that is not
\* registered, with a file above 10 MiB or of a type that is not supported
Inadmissible(formData) ==
  \/ falsy(formData.file)
  \/ falsy(formData.provider)
  \/ providerOf(formData) \notin {"tesseract"}
  \/ formData.file.entry = "text"
  \/ formData.file.size > 10 * 1024 * 1024
  \/ formData.file.type \notin SUPPORTED_IMAGE_TYPES \cup {"application/pdf"}

\* C22: for a request with no file, no provider, an unregistered provider,
\* a file larger than 10 MiB or an unsupported media type, POST never
\* starts pdfToImages or processOCR, and its response is success false with
\* an error and status 400.
C22_IngestionGate ==
  (post.request.formData # NULL /\ Inadmissible(post.request.formData)) =>
     /\ pdf = NoPdf
     /\ ocr = NoCall
     /\ post.pc \in {"received", "responded"}
     /\ post.pc = "responded" =>
          /\ post.response.status = 400
          /\ post.response.success = FALSE
          /\ post.response.error # << >>
          /\ post.response.result = NULL

\* a PDF above the cap, from a registered provider, has been answered
C22_Witness ==
  /\ post.pc = "responded"
  /\ post.request.formData # NULL
  /\ post.request.formData.file # NULL
  /\ post.request.formData.file.entry = "file"
  /\ post.request.formData.file.type = "application/pdf"
  /\ post.request.formData.file.size = MAX_FILE_SIZE + 1
  /\ ~falsy(post.request.formData.provider)
  /\ providerOf(post.request.formData) = "tesseract"
  /\ post.response.status = 400

\* POST has refused the request for one of its checks
Refused == post.pc = "responded" /\ post.response.status = 400

\* processImageClientSide has refused the file for its type
RefusedInBrowser ==
  /\ client.pc = "settled"
  /\ ~client.settled.ok
  /\ Head(client.settled.error.message) = "Unsupported file type: "

\* a request that passes every check of POST but that of the media type
Presentable(formData) ==
  /\ ~falsy(formData.file)
  /\ formData.file.entry = "file"
  /\ formData.file.size <= 10 * 1024 * 1024
  /\ ~falsy(formData.provider)
  /\ providerOf(formData) = "tesseract"

\* the server route accepts exactly the types of onServer, and client-side
\* processing exactly those of inBrowser
Accepts(onServer, inBrowser) ==
  /\ (post.pc \notin {"idle", "received"} /\ post.request.formData # NULL
        /\ Presentable(post.request.formData))
       => (~Refused <=> post.request.formData.file.type \in onServer)
  /\ client.pc \notin {"idle", "called"}
       => (~RefusedInBrowser <=> client.file.type \in inBrowser)
  /\ client.pc # "idle"
       => (isClientSideSupported(client.file) <=> client.file.type \in inBrowser)

\* C23 as stated: a document is accepted if and only if its declared media
\* type is one of image/png, image/jpeg, image/webp, image/tiff, image/gif,
\* image/bmp, application/pdf, by the server route and by client-side
\* processing alike.
C23_AcceptedMediaTypes == Accepts(BoundaryTypes, BoundaryTypes)

\* C23, amended: the server route accepts a document if and only if its
\* declared type is image/png, image/jpeg, image/webp, image/tiff or
\* application/pdf; client-side processing accepts it if and only if the
\* type is image/png, image/jpeg, image/jpg, image/gif, image/webp,
\* image/bmp or application/pdf.
C23_AcceptedPerPath ==
  Accepts({"image/png", "image/jpeg", "image/webp", "image/tiff",
           "application/pdf"},
          {"image/png", "image/jpeg", "image/jpg", "image/gif", "image/webp",
           "image/bmp", "application/pdf"})

\* a TIFF image that the route has passed on to processOCR and that
\* client-side processing has refused
C23_Witness ==
  /\ post.pc = "processOCR"
  /\ post.request.formData.file.type = "image/tiff"
  /\ client.file.type = "image/tiff"
  /\ RefusedInBrowser
  /\ ~isClientSideSupported(client.file)

(* claims about the credential storage, under SpecKeys *)
\* what the calls so far leave stored for a provider: the key of the last
\* storeApiKey for it when no removeApiKey for it came later
RECURSIVE Latest(_, _)
Latest(log, providerId) ==
  IF log = << >> THEN NULL
  ELSE LET last == log[Len(log)]
       IN IF last.providerId # providerId
          THEN Latest(SubSeq(log, 1, Len(log) - 1), providerId)
          ELSE IF last.fn = "storeApiKey" THEN [value |-> last.key]
          ELSE NULL

\* C24: with storage available, getStoredApiKey(p) returns the key of the
\* latest storeApiKey(p, v) not followed by removeApiKey(p), and null
\* otherwise, whatever was called for other providers; items of other keys
\* stay; where window is undefined the calls change nothing and
\* getStoredApiKey returns null.
C24_PerProviderStore ==
  /\ window =>
       /\ \A p \in KeyIds : getStoredApiKey(p) = Latest(keyLog, p)
       /\ getItem(localStorage, "theme") = [value |-> "dark"]
       /\ Cardinality(DOMAIN localStorage) =
            1 + Cardinality({p \in KeyIds : Latest(keyLog, p) # NULL})
  /\ ~window =>
       /\ \A p \in KeyIds : getStoredApiKey(p) = NULL
       /\ localStorage = OtherItems

\* a key stored for mistral and one for google, then mistral's removed
C24_Witness ==
  /\ window
  /\ Len(keyLog) = 3
  /\ keyLog[1] = [fn |-> "storeApiKey", providerId |-> "mistral",
                  key |-> "old-key"]
  /\ keyLog[2] = [fn |-> "storeApiKey", providerId |-> "google",
                  key |-> "new-key"]
  /\ keyLog[3] = [fn |-> "removeApiKey", providerId |-> "mistral", key |-> ""]
  /\ getStoredApiKey("mistral") = NULL
  /\ getStoredApiKey("google") = [value |-> "new-key"]

(* claims about the dispatch of a run, under Spec *)
\* the run whose closures a step creates
Started(r) == runs'[r] # runs[r] /\ abortControllerRef' = r

\* C25: the three classes handleProcessBenchmark computes, client-side,
\* BYOK and server-processed, are pairwise disjoint and together the whole
\* selection, and the run it starts holds exactly one operation for each
\* selected provider: one of its own, or a place in the one stream.
C25_SingleWriter ==
  [][((\E r \in RunIds : Started(r)) /\ handleProcessBenchmark) =>
       LET local == Range(clientSideProviders(selectedProviders))
           direct == Range(byokProviders(selectedProviders, credentialModes,
                                         storedKeys))
           mediated == serverProcessedProviders(selectedProviders,
                                                credentialModes, storedKeys)
       IN /\ local \cap direct = {}
          /\ local \cap Range(mediated) = {}
          /\ direct \cap Range(mediated) = {}
          /\ local \cup direct \cup Range(mediated) = Range(selectedProviders)
          /\ \A i, j \in DOMAIN mediated : i # j => mediated[i] # mediated[j]
          /\ \A r \in RunIds :
                Started(r) =>
                  /\ runs'[r].serverProcessedProviders = mediated
                  /\ \A id \in ProviderIds :
                        /\ runs'[r].ops[id] = "inflight"
                             <=> id \in local \cup direct
                        /\ id \in Range(selectedProviders) <=>
                             (runs'[r].ops[id] = "inflight")
                               # (id \in Range(mediated))
                  /\ runs'[r].stream = "fetching" <=> mediated # << >>]_vars

\* a run with one provider called directly with its stored key and the
\* other sent to the server
C25_Witness ==
  \E r \in RunIds :
     /\ abortControllerRef = r
     /\ selectedProviders = <<"mistral", "google">>
     /\ "mistral" \in storedKeys
     /\ credentialModes["mistral"] = "byok"
     /\ runs[r].ops["mistral"] = "inflight"
     /\ runs[r].ops["google"] = "none"
     /\ runs[r].serverProcessedProviders = <<"google">>
     /\ runs[r].stream = "fetching"

\* C26: once handleProcessBenchmark has started a new run, the outcomes of
\* its session change only through operations it dispatched itself: a
\* callback of an earlier run (an operation settling, a stream event, the
\* stream failing) leaves them as they are.
C26_RunIsolation ==
  [][\A r \in RunIds :
       (/\ runs'[r] # runs[r]
        /\ abortControllerRef # 0
        /\ abortControllerRef' = abortControllerRef
        /\ r # abortControllerRef
        /\ benchmarkResults # NULL)
         => /\ benchmarkResults' # NULL
            /\ benchmarkResults'.results = benchmarkResults.results]_vars

(* claims about the read loop of the stream, under SpecReader *)
\* the outcome events of a text: of each of its lines, ended by a line break
\* or by the end of the stream, that is "data: " and the JSON of an event
RECURSIVE EventsOf(_)
EventsOf(lines) ==
  IF lines = << >> THEN << >>
  ELSE (IF Head(lines) = DataPrefix \o << Payloads.p1 >>
        THEN << [providerId |-> "p1"] >>
        ELSE IF Head(lines) = DataPrefix \o << Payloads.p2 >>
        THEN << [providerId |-> "p2"] >>
        ELSE << >>)
       \o EventsOf(Tail(lines))

\* C27: when the stream has ended, every well-formed data event that was
\* sent, other than the sentinel, has been handed to updateSingleResult,
\* in the order sent, whatever its text and also when it is the last line.
C27_NoEventLost ==
  reader.done => reader.applied = EventsOf(split(reader.wire, "\n"))

\* what the loop applies when the transport delivers the text in one chunk
InOneChunk(text) ==
  LET lines == split(text, "\n")
  IN readLines(SubSeq(lines, 1, Len(lines) - 1))

\* C28: whatever the chunks the text sent so far arrived in, the events
\* applied are those applied when it arrives in one chunk, and the buffer
\* holds the line it ends in.
C28_ChunkIndependence ==
  LET text == SubSeq(reader.wire, 1, reader.offset)
  IN /\ reader.applied = InOneChunk(text)
     /\ reader.buffer = split(text, "\n")[Len(split(text, "\n"))]

\* a stream of two events has ended, a chunk of which ended inside a line
C28_Witness ==
  /\ reader.done
  /\ reader.midLine
  /\ reader.wire = DataPrefix \o << Payloads.p1, "\n", "\n" >>
                   \o DataPrefix \o << Payloads.p1, "\n" >>
  /\ Len(reader.applied) = 2

(* claims about the patches of a session, under SpecLib *)
\* the patches a second caller can bring: those of LibUpdates, and the whole
\* outcome record that updateSingleResult passes for its provider
Patches ==
  {[providerId |-> id, update |-> u] :
     id \in LibIds \cup {"non-existent"}, u \in LibUpdates}
  \cup {[providerId |-> id,
         update |-> [providerId |-> id, providerName |-> "Provider",
                     result |-> NULL, error |-> e, status |-> "error"]] :
          id \in LibIds, e \in ErrorMessages}

Apply(session, patch) ==
  updateBenchmarkResult(session, patch.providerId, patch.update)

\* the last patch applied and patch b give the same session in either order
Commutes(b) == Apply(libSession, b) = Apply(Apply(libPrev, b), libOp)

\* two patches set no field to different values
Agree(a, b) ==
  \A k \in (DOMAIN a.update) \cap (DOMAIN b.update) : a.update[k] = b.update[k]

\* C29 as stated: applying the same patch twice gives the session that
\* applying it once gives, and applying any two patches in either order
\* gives the same session.
C29_PatchAlgebra ==
  libOp # NULL =>
    /\ Apply(libSession, libOp) = libSession
    /\ \A b \in Patches : Commutes(b)

\* C29, amended: updateBenchmarkResult is idempotent, and two patches
\* commute when they are for different ids, or for the same id and set no
\* field to different values.
C29_PatchAlgebraPerId ==
  libOp # NULL =>
    /\ Apply(libSession, libOp) = libSession
    /\ \A b \in Patches :
          (b.providerId # libOp.providerId \/ Agree(b, libOp)) => Commutes(b)

\* a result patch was applied to one of two outcomes, the other of which an
\* error patch can still reach
C29_Witness ==
  /\ libOp # NULL
  /\ Len(libSession.results) = 2
  /\ libOp.providerId = libSession.results[2].providerId
  /\ libOp.update.status = "completed"
  /\ libSession.results[2].status = "completed"
  /\ libSession.results[1].status = "pending"
  /\ \E b \in Patches :
        /\ b.providerId = libSession.results[1].providerId
        /\ b.update.status = "error"
        /\ Apply(libSession, b).results[1].status = "error"
        /\ Commutes(b)

(* claims about the resources of a run, under SpecDocument *)
\* C30: when the promise of tesseractProvider.process, of
\* processImageClientSide or processPdfClientSide, or of pdfToImages has
\* settled, resolved or rejected, the worker it created has been terminated
\* and the temporary directory it created has been removed.
C30_ScopedResources ==
  /\ tess.pc = "settled" => tess.worker \in {"none", "terminated"}
  /\ client.pc = "settled" => client.worker \in {"none", "terminated"}
  /\ pdf.pc = "settled" => pdf.tempDir \in {"none", "removed"}

====
